---- MODULE Spec2Model ----
(***************************************************************************)
(* Research Orchestration Engine of serper-search-mcp.                     *)
(*                                                                         *)
(* The model follows ResearchOrchestrator.executeResearch segment by       *)
(* segment: every `await` of a search or language-model call is a point    *)
(* where the request waits, and the code between two awaits is one atomic  *)
(* step.  Two builds of the orchestrator exist in the repository: the one  *)
(* without telemetry (telemetry = "none") and the one wired to the         *)
(* MetricsService (telemetry = "off" when the service is disabled, "on"    *)
(* when it is enabled and its capture calls may succeed or throw).         *)
(***************************************************************************)
EXTENDS Integers, Sequences, FiniteSets, TLC

\* ------------------------------------------------------------------------
\* Bounds of the model
\* ------------------------------------------------------------------------

\* successful search calls the search port answers per request; further
\* search calls of that request can only throw
MaxSearches == 2

\* the same for each of two concurrent requests
MaxConcSearches == 1

\* advances of the clock observed by the rate limiter
MaxTicks == 2

\* advances of the clock in the runs of the rate limiter with its callers
MaxLimiterTicks == 1

\* ------------------------------------------------------------------------
\* Configuration (environment.ts)
\* ------------------------------------------------------------------------

RATE_LIMIT == 50

\* milliseconds
RATE_WINDOW == 60000

researchDepthSettings ==
  [ basic    |-> [maxSubQueries |-> 4,  maxIterations |-> 6],
    standard |-> [maxSubQueries |-> 7,  maxIterations |-> 15],
    deep     |-> [maxSubQueries |-> 12, maxIterations |-> 25] ]

Depths == {"basic", "standard", "deep"}

\* ------------------------------------------------------------------------
\* Values
\* ------------------------------------------------------------------------

ReqIds == {1, 2}

Range(s) == {s[i] : i \in 1..Len(s)}

\* the query of every request of the model
OriginalQuery == "q"

\* requests handed to executeResearch; "" is the empty query and " " a query
\* of white space only
Requests ==
  { [query |-> OriginalQuery, depth |-> d, maxSources |-> 10] : d \in Depths }
  \cup
  { [query |-> "",  depth |-> "basic",   maxSources |-> 10],
    [query |-> " ", depth |-> "basic",   maxSources |-> 10],
    [query |-> OriginalQuery, depth |-> "extreme", maxSources |-> 10],
    [query |-> OriginalQuery, depth |-> "basic",   maxSources |-> -1],
    [query |-> OriginalQuery, depth |-> "basic",   maxSources |-> 0],
    [query |-> OriginalQuery, depth |-> "basic",   maxSources |-> 1] }

\* String.prototype.trim on the queries of the model
Trim(str) == IF str = " " THEN "" ELSE str

\* McpError(code, message) and plain Error(message); a message is a sequence
\* of text pieces, so that "starts with" is the first piece
McpError(code, message) ==
  [name |-> "McpError", code |-> code, message |-> message]

PlainError(message) ==
  [name |-> "Error", code |-> "none", message |-> message]

\* errors thrown by SerperClient.search
RateLimitError ==
  McpError("InvalidRequest", <<"Rate limit of 50 requests per minute exceeded">>)

SerperApiError ==
  McpError("InternalError", <<"SERPER API error: ", "upstream">>)

\* what the HTTP client throws when the request fails
AxiosError == [name |-> "AxiosError", code |-> "none", message |-> <<"upstream">>]

\* a catch block that lets every error through as it is
searchCatch_rethrows(error) == error

\* the catch block of SerperClient.search
searchCatch(error) ==
  IF error.name = "McpError" THEN error
  ELSE IF error.name = "AxiosError"
  THEN McpError("InternalError", <<"SERPER API error: ">> \o error.message)
  ELSE McpError("InternalError", <<"Unexpected error: ">> \o error.message)

\* the errors leaving SerperClient.search: checkRateLimit threw, or the HTTP
\* request failed
SearchErrors == {searchCatch(e) : e \in {RateLimitError, AxiosError}}

\* error thrown by the language-model clients
LlmError == McpError("InternalError", <<"LLM API error: ", "upstream">>)

\* error thrown by a failing PostHog capture call
CaptureError == PlainError(<<"capture failed">>)

\* error thrown by MetricsService when no operation is open
NotInitializedError == PlainError(<<"Operation not initialized">>)

\* organic entries of a search payload; "" stands for a missing field
Entry(title, link) == [title |-> title, link |-> link, snippet |-> "s"]

\* search payloads (SerperResponse): organic absent, and two full entries
\* around an entry without title
Payloads ==
  { [hasOrganic |-> FALSE, organic |-> <<>>],
    [hasOrganic |-> TRUE,
     organic |-> << Entry("T", "u"), Entry("", "v"), Entry("S", "w") >>] }

\* ------------------------------------------------------------------------
\* Language-model texts and JSON.parse
\* ------------------------------------------------------------------------

\* a text is either not JSON at all, or the JSON encoding of a value
GarbageText == [json |-> FALSE, value |-> [type |-> "undefined"]]

JsonText(v) == [json |-> TRUE, value |-> v]

JUndefined == [type |-> "undefined"]

JNull == [type |-> "null"]

JString == [type |-> "string"]

JArray(items) == [type |-> "array", items |-> items]

JSubQuery(q) == [type |-> "object", query |-> q, rationale |-> "r"]

JSubQueriesObject(field) == [type |-> "object", subQueries |-> field]

\* a decision object whose query is a string ("" also when it is absent)
JDecision(action, query) ==
  [type |-> "object", action |-> action, query |-> query,
   queryType |-> "string"]

\* a decision object whose query is a number other than 0; query holds its
\* decimal text
JNumericDecision(action, digits) ==
  [type |-> "object", action |-> action, query |-> digits,
   queryType |-> "number"]

\* JSON.parse: throws (ok = FALSE) on text that is not JSON
JSONparse(text) ==
  IF text.json THEN [ok |-> TRUE, value |-> text.value]
               ELSE [ok |-> FALSE, value |-> JUndefined]

\* a list of n sub-queries alternating between "a" and "b"
LongList(n) == [i \in 1..n |-> IF i % 2 = 1 THEN "a" ELSE "b"]

\* lists of sub-query texts the language model may answer for a depth
SubQueryLists(depth) ==
  { <<>>, <<"a">>, <<"a", "b">>,
    LongList(researchDepthSettings[depth].maxSubQueries + 1) }

\* texts the language model may answer to the decomposition prompt
DecompositionTexts(depth) ==
  { GarbageText,
    JsonText(JNull),
    JsonText(JSubQueriesObject(JUndefined)),
    JsonText(JSubQueriesObject(JString)),
    JsonText(JSubQueriesObject(JArray(<<JSubQuery("a"), JNull>>))) }
  \cup
  { JsonText(JSubQueriesObject(JArray([i \in 1..Len(l) |-> JSubQuery(l[i])]))) :
      l \in SubQueryLists(depth) }

\* texts the language model may answer to the decision prompt
DecisionTexts ==
  { GarbageText, JsonText(JNull) }
  \cup
  { JsonText(JDecision(a, q)) :
      a \in {"search", "generate_subqueries", "research_complete", "other"},
      q \in {"", "a", "x"} }

\* further texts of a language model that answers a number where a string
\* is asked for
NumericDecisionTexts == { JsonText(JNumericDecision("search", "42")) }

\* texts the language model may answer to the synthesis prompt
SynthesisTexts == {"answer"}

\* ------------------------------------------------------------------------
\* ResearchService (researchService.ts)
\* ------------------------------------------------------------------------

\* an initial state that already queues the original query
initializeState_seedsPending(request) ==
  [ originalQuery       |-> request.query,
    subQueries          |-> <<>>,
    searchResults       |-> <<>>,
    completedSubQueries |-> <<>>,
    pendingSubQueries   |-> << request.query >>,
    citations           |-> <<>>,
    status              |-> "in_progress" ]

initializeState(request) ==
  [ originalQuery       |-> request.query,
    subQueries          |-> <<>>,
    searchResults       |-> <<>>,
    completedSubQueries |-> <<>>,
    pendingSubQueries   |-> <<>>,
    citations           |-> <<>>,
    status              |-> "in_progress" ]

\* an extraction that drops every entry below the top relevance score
extractCitationsFromResults_topScoreOnly(query, results) ==
  IF ~results.hasOrganic THEN <<>>
  ELSE LET org  == results.organic
           kept == SelectSeq([i \in 1..Len(org) |-> i],
                             LAMBDA i : /\ org[i].title # ""
                                        /\ org[i].link # ""
                                        /\ i = 1)
       IN [k \in 1..Len(kept) |->
             [ title          |-> org[kept[k]].title,
               url            |-> org[kept[k]].link,
               snippet        |-> org[kept[k]].snippet,
               relevanceScore |-> 10 - (kept[k] - 1) ]]

\* one Citation per organic entry with a title and a link; the relevance
\* score 1 - index * 0.1 is kept in tenths
extractCitationsFromResults(query, results) ==
  IF ~results.hasOrganic THEN <<>>
  ELSE LET org  == results.organic
           kept == SelectSeq([i \in 1..Len(org) |-> i],
                             LAMBDA i : org[i].title # "" /\ org[i].link # "")
       IN [k \in 1..Len(kept) |->
             [ title          |-> org[kept[k]].title,
               url            |-> org[kept[k]].link,
               snippet        |-> org[kept[k]].snippet,
               relevanceScore |-> 10 - (kept[k] - 1) ]]

\* an update that puts the new SearchResult in front of the older ones
updateStateWithResults_prepends(state, query, results) ==
  [ state EXCEPT
      !.searchResults = << [query |-> query, results |-> results] >> \o @,
      !.completedSubQueries =
          IF query \in Range(@) THEN @ ELSE Append(@, query),
      !.pendingSubQueries = SelectSeq(@, LAMBDA q : q # query),
      !.subQueries =
          [i \in 1..Len(@) |->
             IF @[i].query = query THEN [@[i] EXCEPT !.status = "completed"]
                                   ELSE @[i]],
      !.citations = @ \o extractCitationsFromResults(query, results) ]

\* an update that completes the searched query once more at every search
updateStateWithResults_completesAgain(state, query, results) ==
  [ state EXCEPT
      !.searchResults = Append(@, [query |-> query, results |-> results]),
      !.completedSubQueries = Append(@, query),
      !.pendingSubQueries = SelectSeq(@, LAMBDA q : q # query),
      !.subQueries =
          [i \in 1..Len(@) |->
             IF @[i].query = query THEN [@[i] EXCEPT !.status = "completed"]
                                   ELSE @[i]],
      !.citations = @ \o extractCitationsFromResults(query, results) ]

\* an update that starts tracking a searched query that was not tracked
updateStateWithResults_tracksQuery(state, query, results) ==
  [ state EXCEPT
      !.searchResults = Append(@, [query |-> query, results |-> results]),
      !.completedSubQueries =
          IF query \in Range(@) THEN @ ELSE Append(@, query),
      !.pendingSubQueries = SelectSeq(@, LAMBDA q : q # query),
      !.subQueries =
          IF \E i \in 1..Len(@) : @[i].query = query
          THEN [i \in 1..Len(@) |->
                  IF @[i].query = query
                  THEN [@[i] EXCEPT !.status = "completed"] ELSE @[i]]
          ELSE Append(@, [query |-> query, rationale |-> "decision",
                          status |-> "completed"]),
      !.citations = @ \o extractCitationsFromResults(query, results) ]

\* an update that keeps the citations of the latest search only
updateStateWithResults_replacesCitations(state, query, results) ==
  [ state EXCEPT
      !.searchResults = Append(@, [query |-> query, results |-> results]),
      !.completedSubQueries =
          IF query \in Range(@) THEN @ ELSE Append(@, query),
      !.pendingSubQueries = SelectSeq(@, LAMBDA q : q # query),
      !.subQueries =
          [i \in 1..Len(@) |->
             IF @[i].query = query THEN [@[i] EXCEPT !.status = "completed"]
                                   ELSE @[i]],
      !.citations = extractCitationsFromResults(query, results) ]

\* an update that leaves the searched query in the pending queue
updateStateWithResults_keepsPending(state, query, results) ==
  [ state EXCEPT
      !.searchResults = Append(@, [query |-> query, results |-> results]),
      !.completedSubQueries =
          IF query \in Range(@) THEN @ ELSE Append(@, query),
      !.subQueries =
          [i \in 1..Len(@) |->
             IF @[i].query = query THEN [@[i] EXCEPT !.status = "completed"]
                                   ELSE @[i]],
      !.citations = @ \o extractCitationsFromResults(query, results) ]

updateStateWithResults(state, query, results) ==
  [ state EXCEPT
      !.searchResults = Append(@, [query |-> query, results |-> results]),
      !.completedSubQueries =
          IF query \in Range(@) THEN @ ELSE Append(@, query),
      !.pendingSubQueries = SelectSeq(@, LAMBDA q : q # query),
      !.subQueries =
          [i \in 1..Len(@) |->
             IF @[i].query = query THEN [@[i] EXCEPT !.status = "completed"]
                                   ELSE @[i]],
      !.citations = @ \o extractCitationsFromResults(query, results) ]

\* the forEach of updateStateWithSubQueries over subQueries[i..]
RECURSIVE MergeSubQueries(_, _, _, _)
MergeSubQueries(newState, existingQueries, subQueries, i) ==
  IF i > Len(subQueries) THEN newState
  ELSE LET sq == subQueries[i] IN
       IF sq.query \notin existingQueries
       THEN MergeSubQueries(
              [newState EXCEPT !.pendingSubQueries = Append(@, sq.query),
                               !.subQueries = Append(@, sq)],
              existingQueries \cup {sq.query}, subQueries, i + 1)
       ELSE MergeSubQueries(newState, existingQueries, subQueries, i + 1)

\* a merge that tracks the new sub-queries without queueing them
updateStateWithSubQueries_tracksOnly(state, subQueries) ==
  [ state EXCEPT !.subQueries = @ \o subQueries ]

\* a merge that appends every sub-query it is given
updateStateWithSubQueries_appendsAll(state, subQueries) ==
  [ state EXCEPT
      !.pendingSubQueries =
          @ \o [i \in 1..Len(subQueries) |-> subQueries[i].query],
      !.subQueries = @ \o subQueries ]

updateStateWithSubQueries(state, subQueries) ==
  MergeSubQueries(
    state,
    Range(state.completedSubQueries) \cup Range(state.pendingSubQueries)
      \cup {state.subQueries[i].query : i \in 1..Len(state.subQueries)},
    subQueries, 1)

\* a result that counts completed sub-queries as searches
ResearchResultOf_completedAsSearches(state, synthesisText) ==
  [ answer              |-> synthesisText,
    citations           |-> state.citations,
    subQueriesGenerated |-> Len(state.subQueries),
    subQueriesCompleted |-> Len(state.completedSubQueries),
    searchesPerformed   |-> Len(state.completedSubQueries) ]

\* the ResearchResult built by synthesizeResults from the synthesis text
ResearchResultOf(state, synthesisText) ==
  [ answer              |-> synthesisText,
    citations           |-> state.citations,
    subQueriesGenerated |-> Len(state.subQueries),
    subQueriesCompleted |-> Len(state.completedSubQueries),
    searchesPerformed   |-> Len(state.searchResults) ]

\* organic results of one SearchResult that reach the synthesis prompt:
\* (result.results.organic || []).slice(0, 5)
PromptOrganic(result) ==
  IF result.results.hasOrganic
  THEN SubSeq(result.results.organic, 1,
              IF Len(result.results.organic) < 5
              THEN Len(result.results.organic) ELSE 5)
  ELSE <<>>

\* the numbered entries of the synthesis prompt: entry i (from 0) of
\* SearchResult resultIndex (from 0) is tagged resultIndex * 5 + i + 1,
\* whether or not it has a title and a link
RECURSIVE formatSearchResultsForSynthesis(_)
formatSearchResultsForSynthesis(state) ==
  IF state.searchResults = <<>> THEN <<>>
  ELSE LET n       == Len(state.searchResults)
           organic == PromptOrganic(state.searchResults[n])
       IN formatSearchResultsForSynthesis(
            [state EXCEPT !.searchResults = SubSeq(@, 1, n - 1)])
          \o [i \in 1..Len(organic) |->
                [ resultNum |-> (n - 1) * 5 + (i - 1) + 1,
                  title     |-> organic[i].title,
                  link      |-> organic[i].link ]]

\* ------------------------------------------------------------------------
\* ResearchToolHandler (researchToolHandler.ts)
\* ------------------------------------------------------------------------

\* one step of the stable sort by descending relevanceScore
RECURSIVE InsertByRelevance(_, _)
InsertByRelevance(sorted, citation) ==
  IF sorted = <<>> THEN << citation >>
  ELSE IF Head(sorted).relevanceScore >= citation.relevanceScore
  THEN << Head(sorted) >> \o InsertByRelevance(Tail(sorted), citation)
  ELSE << citation >> \o sorted

RECURSIVE SortByRelevance(_)
SortByRelevance(citations) ==
  IF citations = <<>> THEN <<>>
  ELSE InsertByRelevance(
         SortByRelevance(SubSeq(citations, 1, Len(citations) - 1)),
         citations[Len(citations)])

\* entries of the Sources section that formatResearchResult appends to an
\* answer without one: all citations, by descending relevanceScore
SourcesSection(result) == SortByRelevance(result.citations)

\* ------------------------------------------------------------------------
\* AgentService (researchService.ts, second half)
\* ------------------------------------------------------------------------

\* catch branch of generateSubQueries: one sub-query, the original query
FallbackSubQueries(query) ==
  << [query |-> query, rationale |-> "fallback", status |-> "pending"] >>

\* try/catch of generateSubQueries applied to the text of the language model
ParseSubQueries(query, subQueriesText) ==
  LET parsed == JSONparse(subQueriesText) IN
  IF ~parsed.ok THEN FallbackSubQueries(query)
  ELSE LET response == parsed.value IN
       IF response.type # "object" THEN FallbackSubQueries(query)
       ELSE IF response.subQueries.type # "array" THEN FallbackSubQueries(query)
       ELSE LET items == response.subQueries.items IN
            IF \E i \in 1..Len(items) : items[i].type # "object"
            THEN FallbackSubQueries(query)
            ELSE [i \in 1..Len(items) |->
                    [ query     |-> items[i].query,
                      rationale |-> items[i].rationale,
                      status    |-> "pending" ]]

\* a fallback that always goes on searching
FallbackDecision_alwaysSearch(state) ==
  [ action |-> "search",
    queryType |-> "string",
    query  |-> IF Len(state.pendingSubQueries) > 0
                    /\ state.pendingSubQueries[1] # ""
               THEN state.pendingSubQueries[1]
               ELSE state.originalQuery ]

\* the lists generateSubQueries can return for a query and a depth
SubQueryBatches(query, depth) ==
  {ParseSubQueries(query, t) : t \in DecompositionTexts(depth)}

\* catch branch of makeDecision; pendingSubQueries[0] || originalQuery takes
\* the original query also when the first pending query is the empty string
FallbackDecision(state) ==
  [ action |-> IF Len(state.searchResults) > 0 THEN "research_complete"
                                               ELSE "search",
    queryType |-> "string",
    query  |-> IF Len(state.pendingSubQueries) > 0
                    /\ state.pendingSubQueries[1] # ""
               THEN state.pendingSubQueries[1]
               ELSE state.originalQuery ]

\* the try block of makeDecision throws: JSON.parse fails, the parsed value
\* has no usable action, or a search decision has no query
DecisionThrows(decisionText) ==
  LET parsed == JSONparse(decisionText) IN
  \/ ~parsed.ok
  \/ parsed.value.type # "object"
  \/ parsed.value.action \notin
       {"search", "generate_subqueries", "research_complete"}
  \/ parsed.value.action = "search" /\ parsed.value.query = ""

\* try/catch of makeDecision applied to the text of the language model
ParseDecision(state, decisionText) ==
  IF DecisionThrows(decisionText) THEN FallbackDecision(state)
  ELSE LET decision == JSONparse(decisionText).value IN
       [action |-> decision.action, query |-> decision.query,
        queryType |-> decision.queryType]

\* ------------------------------------------------------------------------
\* MetricsService (metricsService.ts)
\* ------------------------------------------------------------------------

\* modes of the telemetry wiring: orchestrator without MetricsService,
\* MetricsService disabled, MetricsService enabled
TelemetryModes == {"none", "off", "on"}

\* outcomes of one client.capture call: TRUE returns, FALSE throws
CaptureOutcomes(mode) == IF mode = "on" THEN BOOLEAN ELSE {TRUE}

Ok == [ok |-> TRUE, error |-> PlainError(<<>>)]

Thrown(error) == [ok |-> FALSE, error |-> error]

\* recordOperationStart after operationId has been set
recordOperationStart(mode, captureOk) ==
  IF mode = "on" /\ ~captureOk THEN Thrown(CaptureError) ELSE Ok

\* recordSearchDecomposition, recordSearchExecution, recordResultGeneration:
\* throw when no operation is open, then capture when enabled
recordEvent(mode, opId, captureOk) ==
  IF mode = "none" THEN Ok
  ELSE IF opId = 0 THEN Thrown(NotInitializedError)
  ELSE IF mode = "on" /\ ~captureOk THEN Thrown(CaptureError)
  ELSE Ok

\* recordOperationCompletion: as recordEvent; the session is reset by the
\* caller of this operator when it returns Ok
recordOperationCompletion(mode, opId, captureOk) ==
  IF mode = "none" THEN Ok
  ELSE IF opId = 0 THEN Thrown(NotInitializedError)
  ELSE IF mode = "on" /\ ~captureOk THEN Thrown(CaptureError)
  ELSE Ok

\* recordExecutionIssue: no check of the open operation
recordExecutionIssue(mode, captureOk) ==
  IF mode = "on" /\ ~captureOk THEN Thrown(CaptureError) ELSE Ok

\* ------------------------------------------------------------------------
\* ResearchOrchestrator (researchOrchestrator.ts and its metrics build)
\* ------------------------------------------------------------------------

\* validateRequest: the error it throws, or Ok
validateRequest(request) ==
  IF request.query = "" \/ Trim(request.query) = ""
  THEN Thrown(McpError("InvalidParams", <<"Query must be non-empty">>))
  ELSE IF request.depth # "" /\ request.depth \notin Depths
  THEN Thrown(McpError("InvalidParams",
                       <<"Depth must be one of: basic, standard, deep">>))
  ELSE IF request.maxSources # 0 /\ request.maxSources < 1
  THEN Thrown(McpError("InvalidParams",
                       <<"maxSources must be a positive number">>))
  ELSE Ok

\* request.depth || 'standard'
DepthOf(request) == IF request.depth = "" THEN "standard" ELSE request.depth

getMaxIterations(depth) == researchDepthSettings[depth].maxIterations

\* a loop condition that does not look at the status
LoopContinues_ignoresStatus(st, count, maxIterations) ==
  count < maxIterations

\* the loop condition with <= in place of <
LoopContinues_inclusive(st, count, maxIterations) ==
  st.status # "complete" /\ count <= maxIterations

\* condition of the while loop
LoopContinues(st, count, maxIterations) ==
  st.status # "complete" /\ count < maxIterations

\* an iteration that forgets to count itself
NextIteration_stuck(count) == count

\* iterationCount++
NextIteration(count) == count + 1

\* the error thrown by the catch block when no evidence exists
ResearchFailed(error) ==
  McpError("InternalError", <<"Research failed: ">> \o error.message)

\* state.status = 'complete'
MarkComplete(st) == [st EXCEPT !.status = "complete"]

\* a catch block that degrades to synthesis also without any SearchResult
CatchIteration_alwaysDegrade(mode, st, error, captureOk) ==
  LET issue == recordExecutionIssue(mode, captureOk) IN
  IF ~issue.ok
  THEN [pc |-> "done", state |-> st,
        outcome |-> [kind |-> "rejected", error |-> issue.error]]
  ELSE [pc |-> "postLoop", state |-> MarkComplete(st),
        outcome |-> [kind |-> "none"]]

\* the catch block of the loop: next control point, state and outcome
CatchIteration(mode, st, error, captureOk) ==
  LET issue == recordExecutionIssue(mode, captureOk) IN
  IF ~issue.ok
  THEN [pc |-> "done", state |-> st,
        outcome |-> [kind |-> "rejected", error |-> issue.error]]
  ELSE IF Len(st.searchResults) > 0
  THEN [pc |-> "postLoop", state |-> MarkComplete(st),
        outcome |-> [kind |-> "none"]]
  ELSE [pc |-> "done", state |-> st,
        outcome |-> [kind |-> "rejected", error |-> ResearchFailed(error)]]

\* ------------------------------------------------------------------------
\* State
\* ------------------------------------------------------------------------

VARIABLES
  telemetry,       \* wiring of the MetricsService, fixed per process
  operationId,     \* MetricsService.operationId: 0 is null, else the request
                   \* whose recordOperationStart set it
  active,          \* requests handed to executeResearch
  request,         \* request[r]: the ResearchRequest
  state,           \* state[r]: the ResearchState variable of executeResearch
  iterationCount,  \* iterationCount[r]
  pc,              \* pc[r]: where executeResearch of r stands
  inflight,        \* inflight[r]: port calls issued and not yet answered
  decomposition,   \* decomposition[r]: text received and list returned by the
                   \* generateSubQueries call of the current iteration
  decided,         \* decided[r]: state passed to and decision returned by
                   \* a makeDecision call of the current iteration that
                   \* took its catch branch
  outcome,         \* outcome[r]: how the promise of executeResearch settled
  succeeded,       \* succeeded[r]: search calls of r that returned, in order
  synthCalls,      \* synthCalls[r]: calls of synthesizeResults
  synthArg,        \* synthArg[r]: state passed to synthesizeResults
  synthResult,     \* synthResult[r]: what synthesizeResults resolved with
  caught,          \* caught[r]: what the catch block of the loop received
  exitReason,      \* exitReason[r]: how the loop was left
  searchCap,       \* search calls the search port answers per request
  numericAnswers,  \* whether the language model also answers the
                   \* NumericDecisionTexts, fixed per process
  stateWrite,      \* stateWrite[r]: how executeResearch last wrote its state:
                   \* "fresh" when it bound the variable to an object newly
                   \* returned by the ResearchService, "inPlace" when it
                   \* assigned a field of the object the variable refers to
  now,             \* Date.now(), in milliseconds since the process started
  ticks,           \* advances of the clock left in the run
  requestCount,    \* SerperClient.requestCount
  lastRequestTime, \* SerperClient.lastRequestTime, on the scale of now
  admitted,        \* admitted[t]: searches admitted at time t, for the times
                   \* t of the last RATE_WINDOW milliseconds
  posted,          \* callers of SerperClient.search whose HTTP request is
                   \* awaited
  searchReply,     \* how SerperClient.search last settled: "data" when it
                   \* returned, else the code of the McpError it threw
  env,             \* process.env: SERPER_LLM_API_KEY and SERPER_LLM_PROVIDER
  toolCall,        \* the last request to the server: the tool name and
                   \* arguments of a CallTool request
  toolReply        \* how the server answered that request

\* the variables of executeResearch
researchVars ==
  << telemetry, operationId, active, request, state, iterationCount, pc,
     inflight, decomposition, decided, outcome, succeeded, synthCalls,
     synthArg, synthResult, caught, exitReason, searchCap, stateWrite,
     numericAnswers >>

\* the variables of SerperClient and its clock
rateVars ==
  << now, ticks, requestCount, lastRequestTime, admitted, posted,
     searchReply >>

\* the variables of SerperSearchServer
serverVars == << env, toolCall, toolReply >>

vars == << researchVars, rateVars, serverVars >>

\* state[r] before initializeState has run
NoState ==
  [ originalQuery |-> "", subQueries |-> <<>>, searchResults |-> <<>>,
    completedSubQueries |-> <<>>, pendingSubQueries |-> <<>>,
    citations |-> <<>>, status |-> "absent" ]

NoOutcome == [kind |-> "none"]

NoCatch == [origin |-> "none", query |-> "", evidence |-> 0]

NoResult == [answer |-> "", citations |-> <<>>, subQueriesGenerated |-> -1,
             subQueriesCompleted |-> -1, searchesPerformed |-> -1]

\* decomposition[r] of an iteration that has not decomposed
NoDecomposition == [called |-> FALSE, text |-> GarbageText, value |-> <<>>]

\* decided[r] of an iteration in which makeDecision has not fallen back
NoDecision ==
  [fallback |-> FALSE, state |-> NoState,
   value |-> [action |-> "none", query |-> "", queryType |-> "undefined"]]

\* no call of SerperClient.search has settled yet
NoSearchReply == "none"

\* SerperClient after construction: requestCount = 0 and lastRequestTime = 0
\* on the scale of the epoch, which lies more than a window before the start
\* of the process
InitSerperClient(maxTicks) ==
  /\ now = 0
  /\ ticks = maxTicks
  /\ requestCount = 0
  /\ lastRequestTime = 0 - RATE_WINDOW
  /\ admitted = << >>
  /\ posted = {}
  /\ searchReply = NoSearchReply

\* environments of the process: the key is set or not, the provider is
\* unset, one of the two known ones, or another word
Environments ==
  [ key : {"", "k"}, provider : {"", "google", "openrouter", "azure"} ]

NoCall == [name |-> "", args |-> [type |-> "undefined"]]

\* answers of the server: the handler that ran, whether an HTTP request went
\* to the search API, and the tools of a ListTools answer
NoReply ==
  [kind |-> "none", error |-> PlainError(<<>>), handler |-> "none",
   sent |-> FALSE, tools |-> {}]

\* a server that has answered no request yet, in environment e
InitServer(e) ==
  /\ env = e
  /\ toolCall = NoCall
  /\ toolReply = NoReply

InitResearch(modes, cap, ids, reqs) ==
  /\ telemetry \in modes
  /\ searchCap = cap
  /\ operationId = 0
  /\ active = ids
  /\ \E req \in reqs : request = [r \in ReqIds |-> req]
  /\ state = [r \in ReqIds |-> NoState]
  /\ iterationCount = [r \in ReqIds |-> 0]
  /\ pc = [r \in ReqIds |-> IF r \in active THEN "start" ELSE "idle"]
  /\ inflight = [r \in ReqIds |-> {}]
  /\ decomposition = [r \in ReqIds |-> NoDecomposition]
  /\ decided = [r \in ReqIds |-> NoDecision]
  /\ outcome = [r \in ReqIds |-> NoOutcome]
  /\ succeeded = [r \in ReqIds |-> <<>>]
  /\ synthCalls = [r \in ReqIds |-> 0]
  /\ synthArg = [r \in ReqIds |-> NoState]
  /\ synthResult = [r \in ReqIds |-> NoResult]
  /\ caught = [r \in ReqIds |-> NoCatch]
  /\ exitReason = [r \in ReqIds |-> "none"]
  /\ stateWrite = [r \in ReqIds |-> "none"]

InitRequests(modes, cap, ids, reqs) ==
  /\ InitSerperClient(MaxTicks)
  /\ InitServer([key |-> "k", provider |-> ""])
  /\ InitResearch(modes, cap, ids, reqs)
  /\ numericAnswers = FALSE

\* one request to the orchestrator without telemetry
Init == InitRequests({"none"}, MaxSearches, {1}, Requests)

\* one request to the orchestrator wired to the MetricsService
InitMetrics == InitRequests({"off", "on"}, MaxSearches, {1}, Requests)

\* two concurrent basic requests to one orchestrator whose MetricsService is
\* disabled (an enabled one whose captures return takes the same steps)
InitConc ==
  InitRequests({"off"}, MaxConcSearches, {1, 2},
               {req \in Requests : req.depth = "basic" /\ req.maxSources = 10
                                     /\ req.query = OriginalQuery})

\* ------------------------------------------------------------------------
\* Port calls and their answers
\* ------------------------------------------------------------------------

LlmCall(purpose, branch) ==
  [port |-> "llm", purpose |-> purpose, branch |-> branch, query |-> ""]

SearchCall(query, branch) ==
  [port |-> "search", purpose |-> "search", branch |-> branch, query |-> query]

\* a call that is not awaited stays outstanding
Settled_neverAwaited(calls, c) == calls

\* await: the calls outstanding once call c has returned or thrown
Settled(calls, c) == calls \ {c}

\* answers of llmAdapter.generateCompletion: a thrown error or a text
LlmAnswers(texts) ==
  {[ok |-> TRUE, text |-> t] : t \in texts}
  \cup {[ok |-> FALSE, text |-> CHOOSE t \in texts : TRUE]}

\* answers of searchService.performSearch after n calls of the request have
\* returned, at most cap of them returning: a thrown McpError or a payload
SearchAnswers(n, cap) ==
  {[ok |-> FALSE, error |-> e, results |-> CHOOSE p \in Payloads : TRUE] :
     e \in SearchErrors}
  \cup (IF n < cap
        THEN {[ok |-> TRUE, error |-> PlainError(<<>>), results |-> p] :
                p \in Payloads}
        ELSE {})

\* generateSubQueries: the await of the language model is outside the try
generateSubQueries(query, answer, depth) ==
  IF ~answer.ok THEN [ok |-> FALSE, error |-> LlmError, value |-> <<>>]
  ELSE [ok |-> TRUE, error |-> PlainError(<<>>),
        value |-> ParseSubQueries(query, answer.text)]

\* makeDecision: the await of the language model is outside the try
makeDecision(st, answer) ==
  IF ~answer.ok
  THEN [ok |-> FALSE, error |-> LlmError, value |-> FallbackDecision(st)]
  ELSE [ok |-> TRUE, error |-> PlainError(<<>>),
        value |-> ParseDecision(st, answer.text)]

\* synthesizeResults: no try at all
synthesizeResults(st, answer) ==
  IF ~answer.ok THEN [ok |-> FALSE, error |-> LlmError, value |-> NoResult]
  ELSE [ok |-> TRUE, error |-> PlainError(<<>>),
        value |-> ResearchResultOf(st, answer.text)]

\* no forced completion after the loop
ForceComplete_skipped(st) == st

\* if (state.status !== 'complete') state.status = 'complete'
ForceComplete(st) == IF st.status # "complete" THEN MarkComplete(st) ELSE st

\* ------------------------------------------------------------------------
\* Steps of executeResearch
\* ------------------------------------------------------------------------

\* effect of the catch block on request r
ApplyCatch(r, error, origin, query, captureOk) ==
  LET res == CatchIteration(telemetry, state[r], error, captureOk) IN
  /\ pc' = [pc EXCEPT ![r] = res.pc]
  /\ state' = [state EXCEPT ![r] = res.state]
  /\ outcome' = [outcome EXCEPT ![r] = res.outcome]
  /\ caught' = [caught EXCEPT ![r] =
                  [origin |-> origin, query |-> query,
                   evidence |-> Len(state[r].searchResults)]]
  /\ exitReason' = [exitReason EXCEPT ![r] =
                      IF res.pc = "postLoop" THEN "break" ELSE "fatal"]
  /\ stateWrite' = [stateWrite EXCEPT ![r] =
                      IF res.pc = "postLoop" THEN "inPlace" ELSE @]

\* executeResearch up to the loop: validateRequest, recordOperationStart,
\* initializeState
BeginResearch(r) ==
  /\ pc[r] = "start"
  /\ \E captureOk \in CaptureOutcomes(telemetry) :
       LET valid   == validateRequest(request[r])
           started == IF telemetry = "none" THEN Ok
                      ELSE recordOperationStart(telemetry, captureOk)
       IN IF ~valid.ok
          THEN /\ pc' = [pc EXCEPT ![r] = "done"]
               /\ outcome' = [outcome EXCEPT ![r] =
                                [kind |-> "rejected", error |-> valid.error]]
               /\ UNCHANGED << operationId, state, stateWrite >>
          ELSE /\ operationId' = IF telemetry = "none" THEN operationId ELSE r
               /\ IF ~started.ok
                  THEN /\ pc' = [pc EXCEPT ![r] = "done"]
                       /\ outcome' = [outcome EXCEPT ![r] =
                                        [kind |-> "rejected",
                                         error |-> started.error]]
                       /\ UNCHANGED << state, stateWrite >>
                  ELSE /\ pc' = [pc EXCEPT ![r] = "loop"]
                       /\ state' = [state EXCEPT ![r] =
                                      initializeState(request[r])]
                       /\ stateWrite' = [stateWrite EXCEPT ![r] = "fresh"]
                       /\ UNCHANGED outcome
  /\ UNCHANGED << telemetry, numericAnswers, active, request, iterationCount,
                  inflight, decomposition, decided, succeeded, synthCalls,
                  synthArg, synthResult, caught, exitReason, searchCap >>
  /\ UNCHANGED << rateVars, serverVars >>

\* head of the while loop and the start of one iteration, up to the await
LoopHead(r) ==
  /\ pc[r] = "loop"
  /\ LET st == state[r]
         maxIterations == getMaxIterations(DepthOf(request[r]))
     IN IF LoopContinues(st, iterationCount[r], maxIterations)
        THEN /\ iterationCount' =
                  [iterationCount EXCEPT ![r] = NextIteration(@)]
             /\ IF Len(st.pendingSubQueries) = 0 /\ Len(st.subQueries) = 0
                THEN /\ pc' = [pc EXCEPT ![r] = "awaitDecompose"]
                     /\ inflight' = [inflight EXCEPT ![r] =
                          @ \cup {LlmCall("decompose", "initial")}]
                ELSE IF Len(st.pendingSubQueries) > 0
                THEN /\ pc' = [pc EXCEPT ![r] = "awaitSearch"]
                     /\ inflight' = [inflight EXCEPT ![r] =
                          @ \cup {SearchCall(st.pendingSubQueries[1],
                                             "pending")}]
                ELSE /\ pc' = [pc EXCEPT ![r] = "awaitDecision"]
                     /\ inflight' = [inflight EXCEPT ![r] =
                          @ \cup {LlmCall("decide", "loop")}]
             /\ UNCHANGED exitReason
        ELSE /\ pc' = [pc EXCEPT ![r] = "postLoop"]
             /\ exitReason' = [exitReason EXCEPT ![r] =
                  IF st.status = "complete" THEN "complete" ELSE "exhausted"]
             /\ UNCHANGED << iterationCount, inflight >>
  /\ decomposition' = [decomposition EXCEPT ![r] = NoDecomposition]
  /\ decided' = [decided EXCEPT ![r] = NoDecision]
  /\ UNCHANGED << telemetry, numericAnswers, operationId, active, request,
                  state, outcome, succeeded, synthCalls, synthArg,
                  synthResult, caught, searchCap, stateWrite >>
  /\ UNCHANGED << rateVars, serverVars >>

\* generateSubQueries settles: recordSearchDecomposition (first branch of the
\* loop only) and updateStateWithSubQueries, or the catch block
DecompositionReturn(r) ==
  /\ pc[r] = "awaitDecompose"
  /\ \E c \in inflight[r],
        answer \in LlmAnswers(DecompositionTexts(DepthOf(request[r]))),
        captureOk \in CaptureOutcomes(telemetry) :
       LET subQueries == generateSubQueries(request[r].query, answer,
                                            DepthOf(request[r]))
           recorded == IF c.branch = "initial"
                       THEN recordEvent(telemetry, operationId, captureOk)
                       ELSE Ok
       IN /\ inflight' = [inflight EXCEPT ![r] = Settled(@, c)]
          /\ IF ~subQueries.ok
             THEN /\ ApplyCatch(r, subQueries.error, "decompose", "", captureOk)
                  /\ UNCHANGED decomposition
             ELSE /\ decomposition' = [decomposition EXCEPT ![r] =
                       [called |-> TRUE, text |-> answer.text,
                        value |-> subQueries.value]]
                  /\ IF ~recorded.ok
                     THEN ApplyCatch(r, recorded.error, "telemetry", "",
                                     captureOk)
                     ELSE /\ state' = [state EXCEPT ![r] =
                                 updateStateWithSubQueries(@, subQueries.value)]
                          /\ stateWrite' = [stateWrite EXCEPT ![r] = "fresh"]
                          /\ pc' = [pc EXCEPT ![r] = "loop"]
                          /\ UNCHANGED << outcome, caught, exitReason >>
  /\ UNCHANGED << telemetry, numericAnswers, operationId, active, request,
                  iterationCount, decided, succeeded, synthCalls, synthArg,
                  synthResult, searchCap >>
  /\ UNCHANGED << rateVars, serverVars >>

\* performSearch settles: recordSearchExecution (pending branch only) and
\* updateStateWithResults, or the catch block
SearchReturn(r) ==
  /\ pc[r] = "awaitSearch"
  /\ \E c \in inflight[r],
        answer \in SearchAnswers(Len(succeeded[r]), searchCap),
        captureOk \in CaptureOutcomes(telemetry) :
       LET recorded == IF c.branch = "pending"
                       THEN recordEvent(telemetry, operationId, captureOk)
                       ELSE Ok
       IN /\ inflight' = [inflight EXCEPT ![r] = Settled(@, c)]
          /\ IF ~answer.ok
             THEN /\ ApplyCatch(r, answer.error, "search", c.query, captureOk)
                  /\ UNCHANGED succeeded
             ELSE /\ succeeded' = [succeeded EXCEPT ![r] =
                       Append(@, [query |-> c.query,
                                  results |-> answer.results])]
                  /\ IF ~recorded.ok
                     THEN ApplyCatch(r, recorded.error, "telemetry", c.query,
                                     captureOk)
                     ELSE /\ state' = [state EXCEPT ![r] =
                                 updateStateWithResults(@, c.query,
                                                        answer.results)]
                          /\ stateWrite' = [stateWrite EXCEPT ![r] = "fresh"]
                          /\ pc' = [pc EXCEPT ![r] = "loop"]
                          /\ UNCHANGED << outcome, caught, exitReason >>
  /\ UNCHANGED << telemetry, numericAnswers, operationId, active, request,
                  iterationCount, decomposition, decided, synthCalls,
                  synthArg, synthResult, searchCap >>
  /\ UNCHANGED << rateVars, serverVars >>

\* makeDecision settles: the three branches on decision.action, or the catch
\* block
DecisionReturn(r) ==
  /\ pc[r] = "awaitDecision"
  /\ \E c \in inflight[r],
        answer \in LlmAnswers(DecisionTexts \cup
                                 (IF numericAnswers THEN NumericDecisionTexts
                                                    ELSE {})),
        captureOk \in CaptureOutcomes(telemetry) :
       LET made == makeDecision(state[r], answer)
           decision == made.value
       IN IF ~made.ok
          THEN /\ ApplyCatch(r, made.error, "decision", "", captureOk)
               /\ inflight' = [inflight EXCEPT ![r] = Settled(@, c)]
               /\ UNCHANGED decided
          ELSE /\ decided' = [decided EXCEPT ![r] =
                    IF DecisionThrows(answer.text)
                    THEN [fallback |-> TRUE, state |-> state[r],
                          value |-> decision]
                    ELSE NoDecision]
               /\ UNCHANGED << outcome, caught, exitReason >>
               /\ IF decision.action = "search" /\ decision.query # ""
                  THEN /\ pc' = [pc EXCEPT ![r] = "awaitSearch"]
                       /\ inflight' = [inflight EXCEPT ![r] =
                            Settled(@, c)
                              \cup {SearchCall(decision.query, "decision")}]
                       /\ UNCHANGED << state, stateWrite >>
                  ELSE IF decision.action = "generate_subqueries"
                  THEN /\ pc' = [pc EXCEPT ![r] = "awaitDecompose"]
                       /\ inflight' = [inflight EXCEPT ![r] =
                            Settled(@, c) \cup {LlmCall("decompose", "decision")}]
                       /\ UNCHANGED << state, stateWrite >>
                  ELSE /\ pc' = [pc EXCEPT ![r] = "loop"]
                       /\ state' = [state EXCEPT ![r] =
                            IF decision.action = "research_complete"
                            THEN MarkComplete(@) ELSE @]
                       /\ stateWrite' = [stateWrite EXCEPT ![r] =
                            IF decision.action = "research_complete"
                            THEN "inPlace" ELSE @]
                       /\ inflight' = [inflight EXCEPT ![r] = Settled(@, c)]
  /\ UNCHANGED << telemetry, numericAnswers, operationId, active, request,
                  iterationCount, decomposition, succeeded, synthCalls,
                  synthArg, synthResult, searchCap >>
  /\ UNCHANGED << rateVars, serverVars >>

\* after the loop: forced completion, recordOperationCompletion, and the call
\* of synthesizeResults up to its await
PostLoop(r) ==
  /\ pc[r] = "postLoop"
  /\ \E captureOk \in CaptureOutcomes(telemetry) :
       LET st == ForceComplete(state[r])
           completed == recordOperationCompletion(telemetry, operationId,
                                                  captureOk)
       IN /\ state' = [state EXCEPT ![r] = st]
          /\ stateWrite' = [stateWrite EXCEPT ![r] =
               IF st # state[r] THEN "inPlace" ELSE @]
          /\ IF ~completed.ok
             THEN /\ pc' = [pc EXCEPT ![r] = "done"]
                  /\ outcome' = [outcome EXCEPT ![r] =
                       [kind |-> "rejected", error |-> completed.error]]
                  /\ UNCHANGED << operationId, inflight, synthCalls, synthArg >>
             ELSE /\ operationId' =
                       IF telemetry = "none" THEN operationId ELSE 0
                  /\ pc' = [pc EXCEPT ![r] = "awaitSynthesis"]
                  /\ inflight' = [inflight EXCEPT ![r] =
                       @ \cup {LlmCall("synthesize", "post")}]
                  /\ synthCalls' = [synthCalls EXCEPT ![r] = @ + 1]
                  /\ synthArg' = [synthArg EXCEPT ![r] = st]
                  /\ UNCHANGED outcome
  /\ UNCHANGED << telemetry, numericAnswers, active, request, iterationCount,
                  decomposition, decided, succeeded, synthResult, caught,
                  exitReason, searchCap >>
  /\ UNCHANGED << rateVars, serverVars >>

\* synthesizeResults settles: recordResultGeneration and the return
SynthesisReturn(r) ==
  /\ pc[r] = "awaitSynthesis"
  /\ \E c \in inflight[r],
        answer \in LlmAnswers(SynthesisTexts),
        captureOk \in CaptureOutcomes(telemetry) :
       LET result == synthesizeResults(state[r], answer)
           recorded == recordEvent(telemetry, operationId, captureOk)
       IN /\ inflight' = [inflight EXCEPT ![r] = Settled(@, c)]
          /\ pc' = [pc EXCEPT ![r] = "done"]
          /\ IF ~result.ok
             THEN /\ outcome' = [outcome EXCEPT ![r] =
                       [kind |-> "rejected", error |-> result.error]]
                  /\ UNCHANGED synthResult
             ELSE /\ synthResult' = [synthResult EXCEPT ![r] = result.value]
                  /\ outcome' = [outcome EXCEPT ![r] =
                       IF ~recorded.ok
                       THEN [kind |-> "rejected", error |-> recorded.error]
                       ELSE [kind |-> "returned", result |-> result.value]]
  /\ UNCHANGED << telemetry, numericAnswers, operationId, active, request,
                  state, iterationCount, decomposition, decided, succeeded,
                  synthCalls, synthArg, caught, exitReason, searchCap,
                  stateWrite >>
  /\ UNCHANGED << rateVars, serverVars >>

Step(r) ==
  \/ BeginResearch(r)
  \/ LoopHead(r)
  \/ DecompositionReturn(r)
  \/ SearchReturn(r)
  \/ DecisionReturn(r)
  \/ PostLoop(r)
  \/ SynthesisReturn(r)

Next == \E r \in ReqIds : Step(r)

Spec == Init /\ [][Next]_vars

MetricsSpec == InitMetrics /\ [][Next]_vars

ConcSpec == InitConc /\ [][Next]_vars

\* ------------------------------------------------------------------------
\* SerperClient (rate limiter of the search port)
\* ------------------------------------------------------------------------

\* callers of SerperClient.search: the research requests and the search tool
Callers == ReqIds \cup {0}

\* amounts by which the clock advances between two calls
Delays == {1, RATE_WINDOW - 1, RATE_WINDOW}

\* a limiter that still admits a request when the counter is at RATE_LIMIT
checkRateLimit_admitsAtLimit(t, count, last) ==
  LET expired == t - last >= RATE_WINDOW
      c == IF expired THEN 0 ELSE count
      l == IF expired THEN t ELSE last
  IN IF c > RATE_LIMIT
     THEN [admit |-> FALSE, requestCount |-> c, lastRequestTime |-> l]
     ELSE [admit |-> TRUE, requestCount |-> c + 1, lastRequestTime |-> l]

\* checkRateLimit at time t: the limiter after the call and whether the
\* request is admitted
checkRateLimit(t, count, last) ==
  LET expired == t - last >= RATE_WINDOW
      c == IF expired THEN 0 ELSE count
      l == IF expired THEN t ELSE last
  IN IF c >= RATE_LIMIT
     THEN [admit |-> FALSE, requestCount |-> c, lastRequestTime |-> l]
     ELSE [admit |-> TRUE, requestCount |-> c + 1, lastRequestTime |-> l]

\* the admissions of the last RATE_WINDOW milliseconds before and at time t
Recent(adm, t) == SelectSeq(adm, LAMBDA a : a.at > t - RATE_WINDOW)

\* one more admission at time t
Admit(adm, t) ==
  IF adm # << >> /\ adm[Len(adm)].at = t
  THEN [adm EXCEPT ![Len(adm)].n = @ + 1]
  ELSE Append(adm, [at |-> t, n |-> 1])

\* SerperClient.search up to the await of the HTTP request: checkRateLimit,
\* whose McpError the catch block rethrows, then axiosInstance.post
SerperSearch(caller) ==
  /\ caller \notin posted
  /\ LET checked == checkRateLimit(now, requestCount, lastRequestTime) IN
       /\ requestCount' = checked.requestCount
       /\ lastRequestTime' = checked.lastRequestTime
       /\ admitted' = IF checked.admit THEN Admit(Recent(admitted, now), now)
                                       ELSE Recent(admitted, now)
       /\ posted' = IF checked.admit THEN posted \cup {caller} ELSE posted
       /\ searchReply' =
            IF checked.admit THEN searchReply
            ELSE searchCatch(RateLimitError).code
  /\ UNCHANGED << now, ticks, researchVars, serverVars >>

\* SerperClient.search after the await: response.data is returned, or the
\* catch block wraps the error of axios
SerperSearchSettles(caller) ==
  /\ caller \in posted
  /\ posted' = posted \ {caller}
  /\ \/ searchReply' = "data"
     \/ searchReply' = searchCatch(AxiosError).code
  /\ UNCHANGED << now, ticks, requestCount, lastRequestTime, admitted,
                  researchVars, serverVars >>

\* time passes
ClockAdvance(d) ==
  /\ ticks > 0
  /\ ticks' = ticks - 1
  /\ now' = now + d
  /\ admitted' = Recent(admitted, now + d)
  /\ UNCHANGED << requestCount, lastRequestTime, posted, searchReply,
                  researchVars, serverVars >>

RateNext ==
  \/ \E caller \in Callers : SerperSearch(caller)
  \/ \E caller \in Callers : SerperSearchSettles(caller)
  \/ \E d \in Delays : ClockAdvance(d)

\* the search port alone, called by any caller at any time
InitRate ==
  InitRequests({"none"}, 0, {},
               {req \in Requests : req.depth = "standard"})

RateSpec == InitRate /\ [][RateNext]_vars

\* the search port with the HTTP requests of its callers, over fewer
\* advances of the clock
LimiterNext ==
  \/ \E caller \in Callers : SerperSearch(caller)
  \/ \E caller \in Callers : SerperSearchSettles(caller)
  \/ \E d \in Delays : ClockAdvance(d)

InitLimiter ==
  /\ InitSerperClient(MaxLimiterTicks)
  /\ InitServer([key |-> "k", provider |-> ""])
  /\ InitResearch({"none"}, 0, {}, {req \in Requests : req.depth = "standard"})
  /\ numericAnswers = FALSE

LimiterSpec == InitLimiter /\ [][LimiterNext]_vars

\* ------------------------------------------------------------------------
\* SerperSearchServer: the tools it lists and serves
\* ------------------------------------------------------------------------

SearchToolName == "serper-google-search"

ResearchToolName == "deep-research"

ToolNames == {SearchToolName, ResearchToolName, "other-tool"}

\* config.llmProvider: "" is null.  SERPER_LLM_PROVIDER defaults to google,
\* and so does every word that is neither google nor openrouter
llmProvider(e) ==
  IF e.key = "" THEN ""
  ELSE IF e.provider = "openrouter" THEN "openrouter"
  ELSE "google"

\* config.llmApiKey
llmApiKey(e) == IF e.key = "" THEN "" ELSE e.key

\* the constructor: an llmAdapter exists, and with it the orchestrator and
\* the researchToolHandler; the client constructors do not throw
isLlmAvailable_always(e) == TRUE

isLlmAvailable(e) ==
  /\ llmProvider(e) \in {"google", "openrouter"}
  /\ llmApiKey(e) # ""

\* availableTools of setupToolHandlers
availableTools(e) ==
  {SearchToolName} \cup (IF isLlmAvailable(e) THEN {ResearchToolName} ELSE {})

UnavailableError ==
  McpError("InvalidRequest",
           <<"Tool \"", ResearchToolName,
             "\" is unavailable because no LLM provider is configured.">>)

UnknownToolError(name) == McpError("MethodNotFound", <<"Unknown tool: ", name>>)

\* JavaScript values of the tool arguments; a string is its characters
JNumber(n) == [type |-> "number", num |-> n]

JText(chars) == [type |-> "string", chars |-> chars]

JBoolean(b) == [type |-> "boolean", bool |-> b]

SearchArgs(query, numResults, gl, hl, autocorrect) ==
  [type |-> "object", query |-> query, numResults |-> numResults,
   gl |-> gl, hl |-> hl, autocorrect |-> autocorrect]

LowerCase ==
  {"a", "b", "c", "d", "e", "f", "g", "h", "i", "j", "k", "l", "m",
   "n", "o", "p", "q", "r", "s", "t", "u", "v", "w", "x", "y", "z"}

UpperCase ==
  {"A", "B", "C", "D", "E", "F", "G", "H", "I", "J", "K", "L", "M",
   "N", "O", "P", "Q", "R", "S", "T", "U", "V", "W", "X", "Y", "Z"}

\* !chars.trim(): nothing is left once the white space is removed
TrimsToEmpty(chars) == \A i \in 1..Len(chars) : chars[i] = " "

\* /^[a-z]{2}$/
MatchesCountry(chars) ==
  /\ Len(chars) = 2
  /\ \A i \in 1..2 : chars[i] \in LowerCase

\* /^[a-z]{2}(-[A-Z]{2})?$/
MatchesLanguage(chars) ==
  /\ Len(chars) \in {2, 5}
  /\ \A i \in 1..2 : chars[i] \in LowerCase
  /\ Len(chars) = 5 =>
       /\ chars[3] = "-"
       /\ \A i \in 4..5 : chars[i] \in UpperCase

InvalidParams(message) == Thrown(McpError("InvalidParams", <<message>>))

\* SearchService.validateSearchArgs: returns or throws
validateSearchArgs_acceptsAll(args) == Ok

validateSearchArgs(args) ==
  IF args.type # "object"
  THEN InvalidParams("Arguments must be an object")
  ELSE IF args.query.type # "string" \/ TrimsToEmpty(args.query.chars)
  THEN InvalidParams("Query must be a non-empty string")
  ELSE IF /\ args.numResults.type # "undefined"
          /\ \/ args.numResults.type # "number"
             \/ args.numResults.num < 1
             \/ args.numResults.num > 100
  THEN InvalidParams("numResults must be between 1 and 100")
  ELSE IF /\ args.gl.type # "undefined"
          /\ \/ args.gl.type # "string"
             \/ ~MatchesCountry(args.gl.chars)
  THEN InvalidParams("gl (country) must be a valid 2-letter country code")
  ELSE IF /\ args.hl.type # "undefined"
          /\ \/ args.hl.type # "string"
             \/ ~MatchesLanguage(args.hl.chars)
  THEN InvalidParams("hl (language) must be a valid language code")
  ELSE IF /\ args.autocorrect.type # "undefined"
          /\ args.autocorrect.type # "boolean"
  THEN InvalidParams("autocorrect must be a boolean")
  ELSE Ok

\* arguments a client sends to the search tool: values that are no
\* object, a complete valid object, and the objects that set one field
\* beside a valid query
SearchArguments ==
  LET q == JText(<<"q">>)
      u == JUndefined
  IN  {JUndefined, JNull, q}
      \cup {SearchArgs(q, JNumber(10), JText(<<"u", "s">>),
                       JText(<<"e", "n">>), JBoolean(FALSE))}
      \cup {SearchArgs(query, u, u, u, u) :
              query \in {u, JNumber(7), JText(<<>>), JText(<<" ">>), q}}
      \cup {SearchArgs(q, numResults, u, u, u) :
              numResults \in {JNumber(0), JNumber(1), JNumber(100),
                              JNumber(101), JText(<<"5">>)}}
      \cup {SearchArgs(q, u, gl, u, u) :
              gl \in {JText(<<"u", "s">>), JText(<<"U", "S">>),
                      JText(<<"u", "s", "a">>), JNumber(1)}}
      \cup {SearchArgs(q, u, u, hl, u) :
              hl \in {JText(<<"e", "n", "-", "U", "S">>),
                      JText(<<"e", "n", "-", "u", "s">>),
                      JText(<<"e", "n", "_", "U", "S">>),
                      JText(<<"e">>), JBoolean(TRUE)}}
      \cup {SearchArgs(q, u, u, u, autocorrect) :
              autocorrect \in {JBoolean(TRUE), JText(<<"y">>), JNull}}

\* arguments a client sends to the research tool: "" and 0 are the falsy
\* values of depth and maxSources
ResearchArguments ==
  {[type |-> "object", query |-> OriginalQuery, depth |-> "",
    maxSources |-> 0],
   [type |-> "object", query |-> OriginalQuery, depth |-> "basic",
    maxSources |-> 1]}

ToolArguments(name) ==
  IF name = SearchToolName THEN SearchArguments
  ELSE IF name = ResearchToolName THEN ResearchArguments
  ELSE {JUndefined}

\* the ResearchRequest built by handleResearchRequest
ResearchRequestOf(args) ==
  [query |-> args.query,
   depth |-> IF args.depth = "" THEN "standard" ELSE args.depth,
   maxSources |-> IF args.maxSources = 0 THEN 10 ELSE args.maxSources]

Reply(kind, error, handler, sent) ==
  [kind |-> kind, error |-> error, handler |-> handler, sent |-> sent,
   tools |-> {}]

\* the ListTools handler
ListTools ==
  /\ toolCall' = [name |-> "tools/list", args |-> JUndefined]
  /\ toolReply' = [NoReply EXCEPT !.kind = "tools",
                                  !.tools = availableTools(env)]
  /\ UNCHANGED << env, researchVars, rateVars >>

\* SearchToolHandler.handleSearchRequest: validateSearchArgs, then
\* SerperClient.search, whose HTTP request succeeds or fails
handleSearchRequest(args) ==
  LET valid == validateSearchArgs(args)
      checked == checkRateLimit(now, requestCount, lastRequestTime)
  IN  IF ~valid.ok
      THEN /\ toolReply' = Reply("error", valid.error, "search", FALSE)
           /\ UNCHANGED rateVars
      ELSE /\ requestCount' = checked.requestCount
           /\ lastRequestTime' = checked.lastRequestTime
           /\ admitted' = IF checked.admit
                          THEN Admit(Recent(admitted, now), now)
                          ELSE Recent(admitted, now)
           /\ UNCHANGED << now, ticks, posted, searchReply >>
           /\ IF ~checked.admit
              THEN toolReply' = Reply("error", RateLimitError, "search", FALSE)
              ELSE \/ toolReply' = Reply("result", PlainError(<<>>),
                                        "search", TRUE)
                   \/ toolReply' = Reply("error", SerperApiError,
                                        "search", TRUE)

\* ResearchToolHandler.handleResearchRequest up to its call of
\* executeResearch, for request slot 1
handleResearchRequest(args) ==
  /\ 1 \notin active
  /\ active' = active \cup {1}
  /\ request' = [request EXCEPT ![1] = ResearchRequestOf(args)]
  /\ pc' = [pc EXCEPT ![1] = "start"]
  /\ toolReply' = Reply("pending", PlainError(<<>>), "research", FALSE)
  /\ UNCHANGED << telemetry, numericAnswers, operationId, state,
                  iterationCount, inflight, decomposition, decided, outcome,
                  succeeded, synthCalls, synthArg, synthResult, caught,
                  exitReason, searchCap, stateWrite >>

\* the CallTool handler registered by setupToolHandlers
CallTool(name, args) ==
  /\ toolCall' = [name |-> name, args |-> args]
  /\ UNCHANGED env
  /\ IF name = SearchToolName
     THEN /\ handleSearchRequest(args)
          /\ UNCHANGED researchVars
     ELSE IF isLlmAvailable(env) /\ name = ResearchToolName
     THEN /\ handleResearchRequest(args)
          /\ UNCHANGED rateVars
     ELSE IF ~isLlmAvailable(env) /\ name = ResearchToolName
     THEN /\ toolReply' = Reply("error", UnavailableError, "none", FALSE)
          /\ UNCHANGED << researchVars, rateVars >>
     ELSE /\ toolReply' = Reply("error", UnknownToolError(name), "none", FALSE)
          /\ UNCHANGED << researchVars, rateVars >>

ServerNext ==
  \/ ListTools
  \/ \E name \in ToolNames : \E args \in ToolArguments(name) :
       CallTool(name, args)

\* a server started in any environment, before its first request
InitServerSpec ==
  /\ InitSerperClient(MaxTicks)
  /\ \E e \in Environments : InitServer(e)
  /\ InitResearch({"off"}, 0, {},
                  {req \in Requests : req.depth = "standard"})
  /\ numericAnswers = FALSE

ServerSpec == InitServerSpec /\ [][ServerNext]_vars

\* one valid basic request whose language model also answers numbers
InitNumeric ==
  /\ InitSerperClient(MaxTicks)
  /\ InitServer([key |-> "k", provider |-> ""])
  /\ InitResearch({"none"}, MaxSearches, {1},
                  {req \in Requests : req.depth = "basic" /\ req.maxSources = 10
                                        /\ req.query = OriginalQuery})
  /\ numericAnswers = TRUE

NumericSpec == InitNumeric /\ [][Next]_vars

\* one valid basic request to a search port that returns as many searches as
\* the loop of the basic depth has iterations
InitBasicRun ==
  /\ InitSerperClient(MaxTicks)
  /\ InitServer([key |-> "k", provider |-> ""])
  /\ InitResearch({"none"}, getMaxIterations("basic"), {1},
                  {req \in Requests : req.depth = "basic" /\ req.maxSources = 10
                                        /\ req.query = OriginalQuery})
  /\ numericAnswers = FALSE

BasicRunSpec == InitBasicRun /\ [][Next]_vars

\* every port call returns or throws, and the engine takes its next step
FairSpec == Spec /\ (\A r \in ReqIds : WF_vars(Step(r)))

\* ------------------------------------------------------------------------
\* Properties
\* ------------------------------------------------------------------------

\* control points at which the loop of executeResearch awaits a port
LoopAwaits == {"awaitDecompose", "awaitSearch", "awaitDecision"}

\* the request passed validateRequest and its ResearchState exists
Running(r) == state[r].status # "absent"

\* C1: the iteration counter starts at 0, grows by exactly 1 each time the
\* loop body is entered and by nothing else, and never exceeds
\* researchDepthSettings[depth].maxIterations, whatever the ports answer.
C1_IterationBound ==
  /\ \A r \in ReqIds : iterationCount[r] = 0
  /\ [](\A r \in ReqIds :
          Running(r) =>
            iterationCount[r] <= getMaxIterations(DepthOf(request[r])))
  /\ [][\A r \in ReqIds :
          /\ iterationCount'[r] \in {iterationCount[r], iterationCount[r] + 1}
          /\ (pc[r] = "loop" /\ pc'[r] \in LoopAwaits)
               <=> (iterationCount'[r] = iterationCount[r] + 1)]_vars

\* C1 witness: a deep request has used its 25 iterations and left the loop
\* with its budget exhausted
C1_Witness ==
  \E r \in active :
    /\ Running(r)
    /\ iterationCount[r] = getMaxIterations(DepthOf(request[r]))
    /\ request[r].depth = "deep"
    /\ exitReason[r] = "exhausted"
    /\ pc[r] = "done"

\* C2: when every port call returns or throws, every call of executeResearch
\* ends: it resolves with a ResearchResult or rejects with an error.
C2_Terminates ==
  \A r \in ReqIds :
    (pc[r] = "start") ~>
      (pc[r] = "done" /\ outcome[r].kind \in {"returned", "rejected"})

\* C2 witness: a run ended although the decomposer never produced a sub-query
C2_Witness ==
  \E r \in active :
    /\ pc[r] = "done"
    /\ exitReason[r] = "exhausted"
    /\ Len(state[r].subQueries) = 0
    /\ outcome[r].kind = "returned"

\* the citations of a list of SearchResults, in order
RECURSIVE CitationsOfSearches(_)
CitationsOfSearches(results) ==
  IF results = <<>> THEN <<>>
  ELSE extractCitationsFromResults(Head(results).query, Head(results).results)
         \o CitationsOfSearches(Tail(results))

\* C3: an exception in an iteration that already holds a SearchResult stops
\* the loop with the state complete; the synthesizer is called on a state
\* holding exactly the results and citations of the searches that returned
\* (a failed pending search leaves its query at the head of the pending
\* queue), and the ResearchResult of the synthesizer is what executeResearch
\* returns.
C3_PartialFailureDegrades ==
  \A r \in ReqIds :
    (caught[r].origin # "none" /\ caught[r].evidence > 0) =>
      /\ exitReason[r] = "break"
      /\ state[r].status = "complete"
      /\ pc[r] \in {"postLoop", "awaitSynthesis", "done"}
      /\ state[r].searchResults = succeeded[r]
      /\ state[r].citations = CitationsOfSearches(succeeded[r])
      /\ (caught[r].origin = "search"
            /\ caught[r].query \notin Range(state[r].completedSubQueries)
            /\ \E i \in 1..Len(state[r].subQueries) :
                 state[r].subQueries[i].query = caught[r].query)
           => state[r].pendingSubQueries # <<>>
              /\ state[r].pendingSubQueries[1] = caught[r].query
      /\ pc[r] \in {"awaitSynthesis", "done"} =>
           synthCalls[r] = 1 /\ synthArg[r] = state[r]
      /\ pc[r] = "done" =>
           \/ synthResult[r] = NoResult
           \/ outcome[r] = [kind |-> "returned", result |-> synthResult[r]]

\* C4: an exception in an iteration that holds no SearchResult makes
\* executeResearch reject with an McpError whose message starts with
\* 'Research failed: '; the synthesizer is not called and no port call is
\* issued after the failing one.
C4_FatalWithoutEvidence ==
  /\ [](\A r \in ReqIds :
          (caught[r].origin # "none" /\ caught[r].evidence = 0) =>
            /\ pc[r] = "done"
            /\ outcome[r].kind = "rejected"
            /\ outcome[r].error.name = "McpError"
            /\ outcome[r].error.code = "InternalError"
            /\ outcome[r].error.message[1] = "Research failed: "
            /\ synthCalls[r] = 0
            /\ inflight[r] = {})
  /\ [][\A r \in ReqIds :
          pc[r] = "done" =>
            /\ pc'[r] = "done"
            /\ inflight'[r] = {}
            /\ synthCalls'[r] = synthCalls[r]
            /\ outcome'[r] = outcome[r]]_vars

\* C4 witness: the first search failed and the request was rejected
C4_Witness ==
  \E r \in active :
    /\ caught[r].origin = "search"
    /\ caught[r].evidence = 0
    /\ outcome[r].kind = "rejected"

\* C5: a run that leaves the loop without a fatal error calls the synthesizer
\* exactly once, after the loop, on the final state whose status is complete;
\* the synthesizer is never called inside the loop and never twice.
C5_SynthesizedOnce ==
  \A r \in ReqIds :
    /\ synthCalls[r] <= 1
    /\ pc[r] \in {"start", "loop", "postLoop"} \cup LoopAwaits
         => synthCalls[r] = 0
    /\ (pc[r] \in {"awaitSynthesis", "done"}
          /\ exitReason[r] \in {"complete", "exhausted", "break"})
         => /\ synthCalls[r] = 1
            /\ synthArg[r] = state[r]
            /\ state[r].status = "complete"

\* C6: when the loop ends because the iteration budget is used up while the
\* state is in_progress, the state becomes complete and the synthesizer is
\* called; what executeResearch then settles with is what the synthesis call
\* settled with (never a rejection for the exhausted budget), also with zero
\* SearchResults, where the result has searchesPerformed = 0 and no citation.
C6_ForcedCompletion ==
  /\ [][\A r \in ReqIds :
          (pc[r] = "postLoop" /\ state[r].status # "complete"
             /\ pc'[r] # pc[r]) =>
            /\ pc'[r] = "awaitSynthesis"
            /\ state'[r].status = "complete"
            /\ synthCalls'[r] = 1
            /\ synthArg'[r] = state'[r]
            /\ outcome'[r].kind = "none"]_vars
  /\ [](\A r \in ReqIds :
          (exitReason[r] = "exhausted" /\ pc[r] = "done") =>
            \/ /\ synthResult[r] = NoResult
               /\ outcome[r] = [kind |-> "rejected", error |-> LlmError]
            \/ /\ outcome[r].kind = "returned"
               /\ outcome[r].result.searchesPerformed =
                    Len(state[r].searchResults)
               /\ outcome[r].result.citations = state[r].citations
               /\ Len(state[r].searchResults) = 0 =>
                    /\ outcome[r].result.searchesPerformed = 0
                    /\ outcome[r].result.citations = <<>>)

\* C6 witness: a run whose budget ran out without any SearchResult returned a
\* result with searchesPerformed = 0
C6_Witness ==
  \E r \in active :
    /\ exitReason[r] = "exhausted"
    /\ pc[r] = "done"
    /\ outcome[r].kind = "returned"
    /\ outcome[r].result.searchesPerformed = 0
    /\ outcome[r].result.citations = <<>>

\* C7: telemetry does not change the outcome: a run whose synthesis call
\* resolved resolves with that ResearchResult, and no rejection of
\* executeResearch carries an error of the MetricsService.
C7_TelemetryTransparent ==
  \A r \in ReqIds :
    pc[r] = "done" =>
      /\ synthResult[r] # NoResult =>
           outcome[r] = [kind |-> "returned", result |-> synthResult[r]]
      /\ outcome[r].kind = "rejected" =>
           outcome[r].error \notin {NotInitializedError, CaptureError}

\* C8: a throw of the language-model port inside makeDecision or
\* generateSubQueries never reaches the catch block of the loop.
C8_LlmFailureAbsorbed ==
  \A r \in ReqIds : caught[r].origin \notin {"decompose", "decision"}

\* C9: generateSubQueries returns at least one sub-query for every text of
\* the language model, and exactly the original query for text that is not
\* JSON.
C9_DecompositionNonEmpty ==
  \A r \in ReqIds :
    decomposition[r].called =>
      /\ Len(decomposition[r].value) >= 1
      /\ ~JSONparse(decomposition[r].text).ok =>
           /\ Len(decomposition[r].value) = 1
           /\ decomposition[r].value[1].query = request[r].query

\* C10: the list returned by one generateSubQueries call is no longer than
\* researchDepthSettings[depth].maxSubQueries.
C10_DecompositionBounded ==
  \A r \in ReqIds :
    decomposition[r].called =>
      Len(decomposition[r].value)
        <= researchDepthSettings[DepthOf(request[r])].maxSubQueries

\* texts of the language model on which makeDecision falls back
FailingDecisionTexts == {t \in DecisionTexts : DecisionThrows(t)}

C12_InvalidRequestRejected ==
  \A r \in active :
    (/\ \/ Trim(request[r].query) = ""
        \/ request[r].depth \notin Depths
        \/ request[r].maxSources <= 0
     /\ pc[r] # "start") =>
      /\ pc[r] = "done"
      /\ outcome[r].kind = "rejected"
      /\ outcome[r].error.code = "InvalidParams"
      /\ state[r] = NoState
      /\ inflight[r] = {}
      /\ iterationCount[r] = 0
      /\ operationId = 0

\* C13: the ResearchResult of a request holds at most request.maxSources
\* citations, and the Sources section of the tool handler at most that many
\* entries.
C13_SourcesWithinMax ==
  \A r \in active :
    (outcome[r].kind = "returned" /\ request[r].maxSources >= 1) =>
      /\ Len(outcome[r].result.citations) <= request[r].maxSources
      /\ Len(SourcesSection(outcome[r].result)) <= request[r].maxSources

\* searches admitted during the last RATE_WINDOW milliseconds
RECURSIVE AdmittedCount(_)
AdmittedCount(adm) ==
  IF adm = << >> THEN 0 ELSE Head(adm).n + AdmittedCount(Tail(adm))

\* C14: in every interval of RATE_WINDOW milliseconds SerperClient admits at
\* most RATE_LIMIT searches, over all callers; here the interval that ends at
\* the current time.
C14_RollingWindowBudget ==
  AdmittedCount(Recent(admitted, now)) <= RATE_LIMIT

\* C15: concurrent requests share no mutable data but the search rate
\* budget: the ResearchState of a request changes only in steps of that
\* request, and with the rate budget not exceeded a request ends as it ends
\* alone.  With the MetricsService disabled a request that runs alone sees no
\* telemetry call of its loop throw and, when it leaves the loop without a
\* fatal error, reaches its synthesis call.
C15_RequestsIsolated ==
  /\ [][\A r \in ReqIds :
          state'[r] # state[r] =>
            /\ pc'[r] # pc[r]
            /\ \A q \in ReqIds \ {r} :
                 state'[q] = state[q] /\ pc'[q] = pc[q]]_vars
  /\ [](\A r \in active :
          telemetry = "off" =>
            /\ caught[r].origin # "telemetry"
            /\ (pc[r] = "done"
                  /\ exitReason[r] \in {"complete", "exhausted", "break"})
                 => synthCalls[r] = 1)

\* C16: every rejection of executeResearch after validation, in the loop or
\* in synthesis, carries the research-failed McpError whose message is
\* 'Research failed: ' followed by the message of the cause, never the error
\* object thrown by a port; so does a failure of the language model during
\* synthesis.
C16_RejectionsNormalized ==
  \A r \in active :
    (Running(r) /\ outcome[r].kind = "rejected") =>
      /\ outcome[r].error.name = "McpError"
      /\ outcome[r].error.code = "InternalError"
      /\ outcome[r].error.message # << >>
      /\ outcome[r].error.message[1] = "Research failed: "
      /\ outcome[r].error \notin SearchErrors \cup {LlmError}
      /\ (synthCalls[r] = 1 /\ synthResult[r] = NoResult) =>
           outcome[r].error = ResearchFailed(LlmError)

\* C17: in every returned ResearchResult searchesPerformed is the number of
\* SearchResults of the state passed to the synthesizer, which is the number
\* of search calls of the run that returned; subQueriesGenerated is the
\* length of subQueries and subQueriesCompleted the size of
\* completedSubQueries of that state.
C17_ResultCounts ==
  \A r \in active :
    outcome[r].kind = "returned" =>
      /\ outcome[r].result.searchesPerformed = Len(synthArg[r].searchResults)
      /\ outcome[r].result.searchesPerformed = Len(succeeded[r])
      /\ outcome[r].result.subQueriesGenerated = Len(synthArg[r].subQueries)
      /\ outcome[r].result.subQueriesCompleted =
           Cardinality(Range(synthArg[r].completedSubQueries))

\* C17 witness: a result after two searches of the same query, which is one
\* completed sub-query
C17_Witness ==
  \E r \in active :
    /\ outcome[r].kind = "returned"
    /\ outcome[r].result.searchesPerformed = 2
    /\ outcome[r].result.subQueriesCompleted = 1

\* no element occurs twice in the sequence
NoDuplicates(seq) ==
  \A i, j \in 1..Len(seq) : seq[i] = seq[j] => i = j

\* the query texts of a list of sub-queries
QueriesOf(subQueries) == [i \in 1..Len(subQueries) |-> subQueries[i].query]

\* C18: in every state built by updateStateWithSubQueries and
\* updateStateWithResults no two entries of subQueries have the same query
\* and no query is pending twice; merging a list skips the queries already
\* completed, pending or tracked and those met earlier in the list, and
\* merging the same list again changes nothing.
C18_MergeIdempotent ==
  \A r \in active :
    Running(r) =>
      /\ NoDuplicates(QueriesOf(state[r].subQueries))
      /\ NoDuplicates(state[r].pendingSubQueries)
      /\ \A batch \in SubQueryBatches(request[r].query, DepthOf(request[r])) :
           LET st     == state[r]
               known  == Range(st.completedSubQueries)
                           \cup Range(st.pendingSubQueries)
                           \cup Range(QueriesOf(st.subQueries))
               merged == updateStateWithSubQueries(st, batch)
               added  == SubSeq(merged.subQueries, Len(st.subQueries) + 1,
                                Len(merged.subQueries))
           IN /\ updateStateWithSubQueries(merged, batch) = merged
              /\ SubSeq(merged.subQueries, 1, Len(st.subQueries))
                   = st.subQueries
              /\ NoDuplicates(QueriesOf(added))
              /\ Range(QueriesOf(added))
                   = Range(QueriesOf(batch)) \ known
              /\ merged.pendingSubQueries
                   = st.pendingSubQueries \o QueriesOf(added)

\* C18 witness: after a search, a decomposition returned a list of which
\* some entries were skipped by the merge
C18_Witness ==
  \E r \in active :
    /\ pc[r] = "loop"
    /\ decomposition[r].called
    /\ Len(state[r].searchResults) >= 1
    /\ Len(decomposition[r].value) > Len(state[r].subQueries)
    /\ Len(state[r].subQueries) >= 2

\* C19: every pending query is the query of an entry of subQueries and is
\* not completed, also after a search decided by makeDecision of a query
\* that is no tracked sub-query.
C19_PendingTracked ==
  \A r \in active :
    Running(r) =>
      /\ Range(state[r].pendingSubQueries)
           \subseteq Range(QueriesOf(state[r].subQueries))
      /\ Range(state[r].pendingSubQueries)
           \cap Range(state[r].completedSubQueries) = {}

\* C19 witness: a query outside subQueries was searched while another query
\* is pending
C19_Witness ==
  \E r \in active :
    /\ \E q \in Range(state[r].completedSubQueries) :
         q \notin Range(QueriesOf(state[r].subQueries))
    /\ state[r].pendingSubQueries # << >>

\* C20: the status of a ResearchState starts as in_progress and changes at
\* most once, to complete; once complete, the run issues no decomposition,
\* search or decision call, only the synthesis call.
C20_StatusMonotone ==
  /\ [][\A r \in ReqIds :
          state'[r].status # state[r].status =>
            \/ state[r].status = "absent" /\ state'[r].status = "in_progress"
            \/ state[r].status = "in_progress"
                 /\ state'[r].status = "complete"]_vars
  /\ [](\A r \in ReqIds :
          state[r].status = "complete" =>
            /\ pc[r] \notin LoopAwaits
            /\ \A c \in inflight[r] : c.purpose = "synthesize")
  /\ [][\A r \in ReqIds :
          state'[r].status = "complete" =>
            \A c \in inflight'[r] \ inflight[r] : c.purpose = "synthesize"]_vars

\* C20 witness: a run completed by a research_complete decision has ended
C20_Witness ==
  \E r \in active :
    /\ state[r].status = "complete"
    /\ exitReason[r] = "complete"
    /\ pc[r] = "done"

\* C21: the deep-research tool is listed and served exactly when
\* SERPER_LLM_API_KEY is present.  Without the key the tool list holds the
\* search tool only and a deep-research call is answered with the
\* 'unavailable' InvalidRequest error while no research runs; a call of any
\* other unknown tool is answered with MethodNotFound; the search tool is
\* listed and served in every environment.
C21_ResearchToolAvailability ==
  LET configured == env.key # "" IN
  /\ toolReply.kind = "tools" =>
       /\ SearchToolName \in toolReply.tools
       /\ ResearchToolName \in toolReply.tools <=> configured
       /\ toolReply.tools \subseteq {SearchToolName, ResearchToolName}
  /\ toolCall.name = SearchToolName => toolReply.handler = "search"
  /\ toolCall.name = ResearchToolName =>
       IF configured
       THEN toolReply.handler = "research" /\ toolReply.kind # "error"
       ELSE /\ toolReply.kind = "error"
            /\ toolReply.handler = "none"
            /\ toolReply.error = UnavailableError
            /\ toolReply.error.code = "InvalidRequest"
  /\ toolCall.name \notin {"", "tools/list", SearchToolName, ResearchToolName} =>
       /\ toolReply.kind = "error"
       /\ toolReply.handler = "none"
       /\ toolReply.error.code = "MethodNotFound"
  /\ ~configured => active = {}

C21_Witness ==
  /\ env.key = ""
  /\ toolCall.name = ResearchToolName
  /\ toolReply.error = UnavailableError
  /\ active = {}

\* C22: a call of the search tool whose arguments are not an object, whose
\* query is not a non-empty string, whose numResults is outside 1..100, or
\* whose gl (two lower-case letters), hl (two lower-case letters, optionally
\* followed by a hyphen and two upper-case letters) or autocorrect (a
\* boolean) is malformed is rejected with InvalidParams; no request goes to
\* the search API and requestCount, lastRequestTime and the requests
\* admitted in the window stay as they were.
C22_InvalidSearchRejected ==
  [][LET Letters(chars, from, to, alphabet) ==
        \A i \in from..to : chars[i] \in alphabet
      Present(v) == v.type # "undefined"
      Malformed(a) ==
        \/ a.type # "object"
        \/ a.query.type # "string"
        \/ a.query.chars \in {<<>>, <<" ">>}
        \/ Present(a.numResults) /\ a.numResults.type # "number"
        \/ a.numResults.type = "number" /\ a.numResults.num \notin 1..100
        \/ Present(a.gl) /\ a.gl.type # "string"
        \/ a.gl.type = "string" /\
             ~(Len(a.gl.chars) = 2 /\ Letters(a.gl.chars, 1, 2, LowerCase))
        \/ Present(a.hl) /\ a.hl.type # "string"
        \/ a.hl.type = "string" /\
             ~(\/ Len(a.hl.chars) = 2 /\ Letters(a.hl.chars, 1, 2, LowerCase)
               \/ /\ Len(a.hl.chars) = 5
                  /\ Letters(a.hl.chars, 1, 2, LowerCase)
                  /\ a.hl.chars[3] = "-"
                  /\ Letters(a.hl.chars, 4, 5, UpperCase))
        \/ Present(a.autocorrect) /\ a.autocorrect.type # "boolean"
  IN  (toolCall'.name = SearchToolName /\ Malformed(toolCall'.args)) =>
           /\ toolReply'.kind = "error"
           /\ toolReply'.error.code = "InvalidParams"
           /\ ~toolReply'.sent
           /\ UNCHANGED << requestCount, lastRequestTime, admitted >>
  ]_vars

C22_Witness ==
  /\ toolCall.name = SearchToolName
  /\ toolCall.args.type = "object"
  /\ toolCall.args.numResults = JNumber(101)
  /\ toolReply.error.code = "InvalidParams"
  /\ ~toolReply.sent
  /\ requestCount = RATE_LIMIT - 1

\* C23: a research request has at most one external call (search or
\* language model) in flight, and its state, its iteration counter and its
\* set of outstanding calls change only in steps in which the outstanding
\* call has returned or thrown.
C23_OneCallInFlight ==
  [][\A r \in ReqIds :
       /\ Cardinality(inflight'[r]) <= 1
       /\ (/\ inflight[r] # {}
           /\ \/ state'[r] # state[r]
              \/ iterationCount'[r] # iterationCount[r]
              \/ inflight'[r] # inflight[r]
              \/ pc'[r] # pc[r])
          => inflight[r] \cap inflight'[r] = {}
  ]_vars

C23_Witness ==
  \E r \in ReqIds :
    /\ inflight[r] = {SearchCall("x", "decision")}
    /\ Len(state[r].searchResults) > 0

\* the queries of a sequence of searches, each at its first occurrence only
RECURSIVE FirstExecutions(_)
FirstExecutions(searches) ==
  IF searches = <<>> THEN <<>>
  ELSE LET earlier == FirstExecutions(SubSeq(searches, 1, Len(searches) - 1))
           last == searches[Len(searches)].query
       IN IF last \in Range(earlier) THEN earlier ELSE Append(earlier, last)

\* C24: a search of the pending branch is a search of the head of
\* pendingSubQueries; a search decided by the Decision Policy is issued only
\* when no sub-query is pending (so a later sub-query overtakes no pending
\* older one); searchResults holds the searches in the order in which they
\* were executed, and completedSubQueries holds the searched queries in the
\* order of their first execution.
C24_FifoExecutionOrder ==
  \A r \in ReqIds : Running(r) =>
    LET st == state[r] IN
    /\ \A c \in inflight[r] : c.port = "search" =>
         IF c.branch = "pending"
         THEN /\ st.pendingSubQueries # <<>>
              /\ c.query = Head(st.pendingSubQueries)
         ELSE st.pendingSubQueries = <<>>
    /\ Len(st.searchResults) = Len(succeeded[r])
    /\ \A i \in 1..Len(st.searchResults) :
         /\ st.searchResults[i].query = succeeded[r][i].query
         /\ st.searchResults[i].results = succeeded[r][i].results
    /\ st.completedSubQueries = FirstExecutions(succeeded[r])

C24_Witness ==
  \E r \in ReqIds :
    /\ Len(state[r].searchResults) = 2
    /\ state[r].searchResults[1].query = "a"
    /\ state[r].searchResults[2].query = "b"
    /\ state[r].completedSubQueries = <<"a", "b">>
    /\ state[r].subQueries[1].query = "a"

\* C25: the first external call of the loop is the decomposition of the
\* original query; the iteration that performs an initial decomposition
\* issues no further call and executes no search; the Decision Policy is
\* called only at the start of an iteration, with an empty pending queue and
\* a non-empty subQueries list.
C25_DecomposeFirstDecideLast ==
  [][\A r \in ReqIds :
       LET initial == LlmCall("decompose", "initial")
           decide  == LlmCall("decide", "loop")
       IN
       /\ (iterationCount[r] = 0 /\ iterationCount'[r] # 0) =>
            /\ succeeded[r] = <<>>
            /\ inflight[r] = {}
            /\ inflight'[r] = {initial}
       /\ initial \in inflight[r] =>
            /\ inflight'[r] \in {{initial}, {}}
            /\ succeeded'[r] = succeeded[r]
            /\ state'[r].searchResults = state[r].searchResults
            /\ decomposition'[r].called /\ decomposition'[r].text = GarbageText
                 => decomposition'[r].value =
                      FallbackSubQueries(state[r].originalQuery)
       /\ decide \in inflight'[r] =>
            /\ state'[r].pendingSubQueries = <<>>
            /\ state'[r].subQueries # <<>>
       /\ (decide \in inflight'[r] /\ decide \notin inflight[r]) =>
            /\ pc[r] = "loop"
            /\ iterationCount'[r] = iterationCount[r] + 1
  ]_vars

C25_Witness ==
  \E r \in ReqIds :
    /\ LlmCall("decide", "loop") \in inflight[r]
    /\ iterationCount[r] = 3
    /\ Len(state[r].searchResults) = 1
    /\ state[r].pendingSubQueries = <<>>

\* C26: when a search decided by the Decision Policy returns, exactly one
\* SearchResult (the query and its payload) and the citations of the payload
\* are appended; subQueries and pendingSubQueries stay as they were when the
\* query is no tracked sub-query; the query is appended to
\* completedSubQueries when it was not completed and completedSubQueries
\* stays as it was when the query was already completed.
C26_DecidedSearchFoldedIn ==
  [][\A r \in ReqIds : \A c \in inflight[r] :
       (/\ c.port = "search"
        /\ c.branch = "decision"
        /\ Len(succeeded'[r]) = Len(succeeded[r]) + 1)
       =>
       LET old == state[r]
           new == state'[r]
           payload == succeeded'[r][Len(succeeded'[r])].results
           found == IF payload.hasOrganic
                    THEN SelectSeq(payload.organic,
                                   LAMBDA e : e.title # "" /\ e.link # "")
                    ELSE <<>>
           tracked == {old.subQueries[i].query : i \in 1..Len(old.subQueries)}
       IN
       /\ new.searchResults =
            Append(old.searchResults, [query |-> c.query, results |-> payload])
       /\ Len(new.citations) = Len(old.citations) + Len(found)
       /\ SubSeq(new.citations, 1, Len(old.citations)) = old.citations
       /\ \A k \in 1..Len(found) :
            new.citations[Len(old.citations) + k].url = found[k].link
       /\ c.query \notin tracked =>
            /\ new.subQueries = old.subQueries
            /\ new.pendingSubQueries = old.pendingSubQueries
       /\ new.completedSubQueries =
            IF c.query \in Range(old.completedSubQueries)
            THEN old.completedSubQueries
            ELSE Append(old.completedSubQueries, c.query)
       /\ new.originalQuery = old.originalQuery
       /\ new.status = old.status
  ]_vars

\* a decided search of an untracked query has been folded in
C26_Witness ==
  \E r \in ReqIds :
    /\ Len(state[r].searchResults) = 2
    /\ state[r].searchResults[2].query = "x"
    /\ state[r].searchResults[2].results.hasOrganic
    /\ state[r].completedSubQueries = <<"a", "x">>
    /\ Len(state[r].subQueries) = 1
    /\ Len(state[r].citations) = 2

\* s is a prefix of t
IsPrefix(s, t) == Len(s) <= Len(t) /\ SubSeq(t, 1, Len(s)) = s

\* C27: in every step the citations and the searchResults of a request
\* before the step are a prefix of those after it; a search that returns
\* makes searchResults exactly one longer; a decomposition that returns
\* changes neither list.
C27_AppendOnly ==
  [][\A r \in ReqIds : Running(r) =>
       LET old == state[r]
           new == state'[r]
       IN
       /\ IsPrefix(old.citations, new.citations)
       /\ IsPrefix(old.searchResults, new.searchResults)
       /\ Len(succeeded'[r]) = Len(succeeded[r]) + 1 =>
            Len(new.searchResults) = Len(old.searchResults) + 1
       /\ Len(succeeded'[r]) = Len(succeeded[r]) =>
            new.searchResults = old.searchResults
       /\ pc[r] = "awaitDecompose" =>
            /\ new.citations = old.citations
            /\ new.searchResults = old.searchResults
  ]_vars

\* a second search has been folded into a state that held citations
C27_Witness ==
  \E r \in ReqIds :
    /\ Len(state[r].searchResults) = 2
    /\ state[r].searchResults[1].results.hasOrganic
    /\ ~state[r].searchResults[2].results.hasOrganic
    /\ Len(state[r].citations) = 2
    /\ Len(state[r].subQueries) = 2

\* the organic entries with a title and a link of a list of SearchResults,
\* in the order of the searches and, within a search, of the payload
RECURSIVE CitedEntries(_)
CitedEntries(searchResults) ==
  IF searchResults = <<>> THEN <<>>
  ELSE LET payload == Head(searchResults).results
       IN (IF payload.hasOrganic
           THEN SelectSeq(payload.organic,
                          LAMBDA e : e.title # "" /\ e.link # "")
           ELSE <<>>)
          \o CitedEntries(Tail(searchResults))

\* C28: in every reachable state the citations are, one for one and in
\* order, the organic entries with a title and a link of all SearchResults:
\* none is dropped for its score and none for a URL cited before.
C28_OneCitationPerEntry ==
  \A r \in ReqIds : Running(r) =>
    LET entries == CitedEntries(state[r].searchResults)
        citations == state[r].citations
    IN /\ Len(citations) = Len(entries)
       /\ \A k \in 1..Len(entries) :
            /\ citations[k].title = entries[k].title
            /\ citations[k].url = entries[k].link
            /\ citations[k].snippet = entries[k].snippet

\* two searches returned the same URLs
C28_Witness ==
  \E r \in ReqIds :
    /\ Len(state[r].searchResults) = 2
    /\ Len(state[r].citations) = 4
    /\ state[r].citations[1].url = state[r].citations[3].url
    /\ state[r].citations[2].url = "w"
    /\ state[r].citations[2].relevanceScore < state[r].citations[1].relevanceScore

\* C29: every step that changes the ResearchState of a request binds the
\* state to an object newly returned by the ResearchService, so that the
\* object it was computed from keeps all its fields; a step that marks the
\* state complete changes the status only.
C29_ImmutableUpdates ==
  [][\A r \in ReqIds : (Running(r) /\ state'[r] # state[r]) =>
       /\ stateWrite'[r] = "fresh"
       /\ (state[r].status # "complete" /\ state'[r].status = "complete") =>
            state'[r] = [state[r] EXCEPT !.status = "complete"]
  ]_vars

\* C30: every decision makeDecision returns has one of the actions search,
\* generate_subqueries and research_complete, and a search decision has a
\* query that is a non-empty string; on a parsed object that breaks either
\* rule makeDecision returns the fallback decision of the state.  Stated for
\* makeDecision applied, in every state in which the loop calls it, to every
\* text of the language model.
C30_DecisionsValidated ==
  \A r \in ReqIds : pc[r] = "awaitDecision" =>
    \A t \in DecisionTexts \cup NumericDecisionTexts :
      LET d == ParseDecision(state[r], t)
          Allowed == {"search", "generate_subqueries", "research_complete"}
          Valid(v) ==
            /\ v.action \in Allowed
            /\ v.action = "search" =>
                 v.queryType = "string" /\ v.query # ""
      IN /\ Valid(d)
         /\ (t.json /\ t.value.type = "object" /\ ~Valid(t.value)) =>
              /\ d.action = IF Len(state[r].searchResults) > 0
                            THEN "research_complete" ELSE "search"
              /\ d.query = state[r].originalQuery

\* C31: SerperClient.search lets out McpErrors only; the rate-limit
\* rejection (InvalidRequest, the rate-limit message) and the upstream
\* failure (InternalError, 'SERPER API error: ...') differ in code and
\* message; the catch block of the loop treats both alike: with a
\* SearchResult in the state the loop is left with the state complete,
\* without one executeResearch rejects with 'Research failed: ...' of the
\* search error.
C31_SearchErrorsDistinctSamePolicy ==
  LET rateLimited == searchCatch(RateLimitError)
      upstream    == searchCatch(AxiosError)
      unexpected  == searchCatch(PlainError(<<"boom">>))
  IN
  /\ \A e \in SearchErrors \cup {unexpected} : e.name = "McpError"
  /\ rateLimited.code = "InvalidRequest"
  /\ rateLimited.message =
       <<"Rate limit of 50 requests per minute exceeded">>
  /\ upstream.code = "InternalError"
  /\ Head(upstream.message) = "SERPER API error: "
  /\ \A r \in ReqIds :
       /\ Running(r) =>
            LET onLimit == CatchIteration(telemetry, state[r], rateLimited, TRUE)
                onError == CatchIteration(telemetry, state[r], upstream, TRUE)
            IN /\ onLimit.pc = onError.pc
               /\ onLimit.state = onError.state
               /\ onLimit.pc = "postLoop" <=> Len(state[r].searchResults) > 0
               /\ onLimit.pc = "done" =>
                    onLimit.outcome.error = ResearchFailed(rateLimited)
       /\ caught[r].origin = "search" =>
            IF caught[r].evidence > 0
            THEN /\ exitReason[r] = "break"
                 /\ state[r].status = "complete"
                 /\ Len(state[r].searchResults) = caught[r].evidence
            ELSE /\ exitReason[r] = "fatal"
                 /\ outcome[r].kind = "rejected"
                 /\ outcome[r].error \in
                      {ResearchFailed(e) : e \in SearchErrors}

\* a research request died of a rate-limit rejection of its first search
C31_Witness ==
  \E r \in ReqIds :
    /\ caught[r].origin = "search"
    /\ caught[r].evidence = 0
    /\ outcome[r].kind = "rejected"
    /\ outcome[r].error = ResearchFailed(RateLimitError)

\* C32: the numbers of the appended Sources section are the citation
\* numbers of the synthesis prompt: entry [n] of the Sources list of a
\* returned result has the URL of the organic entry tagged [n] in the prompt
\* built from the state handed to the synthesizer, and the tags of the
\* prompt are pairwise distinct.
C32_SourceNumbersMatchPrompt ==
  \A r \in ReqIds :
    outcome[r].kind = "returned" =>
      LET prompt  == formatSearchResultsForSynthesis(synthArg[r])
          sources == SourcesSection(outcome[r].result)
      IN /\ \A i, j \in 1..Len(prompt) :
              prompt[i].resultNum = prompt[j].resultNum => i = j
         /\ \A n \in 1..Len(sources) :
              \E i \in 1..Len(prompt) :
                /\ prompt[i].resultNum = n
                /\ prompt[i].link = sources[n].url

\* C33: the Decision Policy is consulted only on a state that holds a
\* SearchResult: in every loop state, tracked sub-queries with an empty
\* pending queue imply a non-empty searchResults. So a fallback decision of
\* a run is research_complete, never search, and a failure that is fatal for
\* lack of evidence comes from a decomposition or from a search of the
\* pending queue made before any search succeeded.
C33_DecisionSeesEvidence ==
  \A r \in ReqIds : Running(r) =>
    /\ (Len(state[r].subQueries) > 0 /\ state[r].pendingSubQueries = <<>>)
         => Len(state[r].searchResults) > 0
    /\ pc[r] = "awaitDecision" => Len(state[r].searchResults) > 0
    /\ \A c \in inflight[r] :
         (c.port = "search" /\ c.branch = "decision")
           => Len(state[r].searchResults) > 0
    /\ decided[r].fallback =>
         /\ Len(decided[r].state.searchResults) > 0
         /\ decided[r].value.action = "research_complete"
    /\ (caught[r].origin # "none" /\ caught[r].evidence = 0) =>
         /\ caught[r].origin \in {"decompose", "search"}
         /\ state[r].searchResults = <<>>
         /\ succeeded[r] = <<>>
         /\ caught[r].origin = "search" =>
              /\ state[r].pendingSubQueries # <<>>
              /\ caught[r].query = state[r].pendingSubQueries[1]

\* the Decision Policy fell back, on a state with evidence, to
\* research_complete
C33_Witness ==
  \E r \in ReqIds :
    /\ decided[r].fallback
    /\ Len(decided[r].state.searchResults) > 0
    /\ decided[r].state.pendingSubQueries = <<>>
    /\ decided[r].value.action = "research_complete"

\* searches a run has executed: those that returned, the one that threw and
\* the one in flight
ExecutedSearches(r) ==
  Len(succeeded[r])
  + (IF caught[r].origin = "search" THEN 1 ELSE 0)
  + Cardinality({c \in inflight[r] : c.port = "search"})

\* C34: a run executes at most maxIterations - 1 searches for its depth (5,
\* 14, 24): an iteration executes at most one search and the first none, so
\* the executed searches stay below the iteration counter, and
\* searchesPerformed of a returned result is at most maxIterations - 1.
C34_SearchesBelowIterations ==
  \A r \in ReqIds : Running(r) =>
    LET maxIterations == getMaxIterations(DepthOf(request[r])) IN
    /\ maxIterations - 1 =
         CASE DepthOf(request[r]) = "basic"    -> 5
           [] DepthOf(request[r]) = "standard" -> 14
           [] DepthOf(request[r]) = "deep"     -> 24
    /\ iterationCount[r] <= 1 => ExecutedSearches(r) = 0
    /\ iterationCount[r] >= 1 => ExecutedSearches(r) <= iterationCount[r] - 1
    /\ ExecutedSearches(r) <= maxIterations - 1
    /\ Len(state[r].searchResults) <= ExecutedSearches(r)
    /\ outcome[r].kind = "returned" =>
         outcome[r].result.searchesPerformed <= maxIterations - 1

\* a basic run returned a result of five searches, one in each iteration
\* after the first
C34_Witness ==
  \E r \in ReqIds :
    /\ outcome[r].kind = "returned"
    /\ iterationCount[r] = getMaxIterations("basic")
    /\ ExecutedSearches(r) = 5
    /\ outcome[r].result.searchesPerformed = 5

\* C35: in every reachable state a tracked sub-query has status completed
\* exactly when its query is in completedSubQueries and status pending
\* exactly when its query is in pendingSubQueries; no sub-query has status
\* failed, a search that throws leaves every status as it was; and a step
\* changes the status of a tracked sub-query only from pending to completed.
C35_StatusMirrorsQueues ==
  /\ [](\A r \in ReqIds : Running(r) =>
          LET st == state[r] IN
          /\ \A i \in 1..Len(st.subQueries) :
               /\ st.subQueries[i].status \in {"pending", "completed"}
               /\ st.subQueries[i].status = "completed"
                    <=> st.subQueries[i].query \in Range(st.completedSubQueries)
               /\ st.subQueries[i].status = "pending"
                    <=> st.subQueries[i].query \in Range(st.pendingSubQueries))
  /\ [][\A r \in ReqIds : Running(r) =>
          /\ (caught[r].origin = "none" /\ caught'[r].origin = "search")
               => state'[r].subQueries = state[r].subQueries
          /\ Len(state'[r].subQueries) >= Len(state[r].subQueries)
          /\ \A i \in 1..Len(state[r].subQueries) :
               /\ state'[r].subQueries[i].query = state[r].subQueries[i].query
               /\ \/ state'[r].subQueries[i].status
                       = state[r].subQueries[i].status
                  \/ /\ state[r].subQueries[i].status = "pending"
                     /\ state'[r].subQueries[i].status = "completed"]_vars

\* the search of a tracked sub-query threw after the search of another one
\* had returned: the first is completed, the second still pending
C35_Witness ==
  \E r \in ReqIds :
    /\ caught[r].origin = "search"
    /\ \E i, j \in 1..Len(state[r].subQueries) :
         /\ state[r].subQueries[i].status = "completed"
         /\ state[r].subQueries[j].status = "pending"
         /\ state[r].subQueries[j].query = caught[r].query

\* C36: in every reachable state every query of completedSubQueries is the
\* query of a SearchResult, completedSubQueries has no duplicates and is no
\* longer than searchResults; so subQueriesCompleted <= searchesPerformed in
\* every result, while subQueriesCompleted may exceed the number of tracked
\* sub-queries (the completed ones are then untracked queries of decisions).
C36_CompletedWithinSearches ==
  \A r \in ReqIds : Running(r) =>
    LET st == state[r] IN
    /\ Range(st.completedSubQueries) \subseteq Range(QueriesOf(st.searchResults))
    /\ NoDuplicates(st.completedSubQueries)
    /\ Len(st.completedSubQueries) <= Len(st.searchResults)
    /\ outcome[r].kind = "returned" =>
         /\ outcome[r].result.subQueriesCompleted
              <= outcome[r].result.searchesPerformed
         /\ outcome[r].result.subQueriesCompleted
              > outcome[r].result.subQueriesGenerated
              => \E q \in Range(synthArg[r].completedSubQueries) :
                   \A i \in 1..Len(synthArg[r].subQueries) :
                     synthArg[r].subQueries[i].query # q

\* a result whose two completed queries stand against one tracked sub-query:
\* the second search was decided, of a query that is not tracked
C36_Witness ==
  \E r \in ReqIds :
    /\ outcome[r].kind = "returned"
    /\ outcome[r].result.subQueriesCompleted = 2
    /\ outcome[r].result.subQueriesGenerated = 1
    /\ outcome[r].result.searchesPerformed = 2

\* the limiter threw its McpError (InvalidRequest) at the caller of search
RateLimitReply == searchCatch(RateLimitError).code

\* C37 as stated: requestCount is between 0 and RATE_LIMIT in every
\* reachable state; a rejected request leaves requestCount and
\* lastRequestTime unchanged; an admitted request increases requestCount by
\* exactly one, whatever becomes of its HTTP call.
C37_AdmissionAddsOne ==
  /\ [](requestCount \in 0..RATE_LIMIT)
  /\ [][/\ (searchReply' = RateLimitReply /\ searchReply' # searchReply)
            => UNCHANGED << requestCount, lastRequestTime >>
        /\ posted' \ posted # {} => requestCount' = requestCount + 1
        /\ posted' \ posted = {}
            => UNCHANGED << requestCount, lastRequestTime >>]_vars

\* C37, amended: requestCount is between 0 and RATE_LIMIT in every reachable
\* state and, while the window is running, the number of requests admitted
\* since lastRequestTime; a rejected request leaves requestCount and
\* lastRequestTime unchanged; an admitted request finds fewer than
\* RATE_LIMIT requests counted in its window and adds exactly one to the
\* count of that window, which is requestCount, or 0 when the request comes
\* RATE_WINDOW or more after lastRequestTime and opens a new window; no
\* later step gives the slot back, the settling of the HTTP call with data
\* or with an error included.
C37_AdmissionAddsOneToWindow ==
  /\ [](/\ requestCount \in 0..RATE_LIMIT
        /\ now - lastRequestTime < RATE_WINDOW =>
             requestCount =
               AdmittedCount(SelectSeq(admitted,
                                       LAMBDA a : a.at >= lastRequestTime)))
  /\ [][LET expired == now - lastRequestTime >= RATE_WINDOW
            counted == IF expired THEN 0 ELSE requestCount
        IN
        /\ (searchReply' = RateLimitReply /\ searchReply' # searchReply)
            => /\ UNCHANGED << requestCount, lastRequestTime >>
               /\ requestCount = RATE_LIMIT
               /\ ~expired
        /\ posted' \ posted # {}
            => /\ counted < RATE_LIMIT
               /\ requestCount' = counted + 1
               /\ lastRequestTime' = IF expired THEN now ELSE lastRequestTime
               /\ Cardinality(posted' \ posted) = 1
        /\ posted' \ posted = {}
            => UNCHANGED << requestCount, lastRequestTime >>]_vars

\* a request took the last slot of a window that a request admitted
\* RATE_WINDOW after the first window had opened, its HTTP call is awaited,
\* and a request that came in between was rejected
C37_Witness ==
  /\ lastRequestTime >= RATE_WINDOW
  /\ requestCount = RATE_LIMIT
  /\ posted # {}
  /\ searchReply = RateLimitReply

\* C38: every record call of executeResearch that needs an open operation
\* (recordSearchDecomposition, recordSearchExecution,
\* recordOperationCompletion, recordResultGeneration) is made after
\* recordOperationStart and before recordOperationCompletion resets the
\* session, so wherever a request stands before one of these calls the
\* MetricsService has an operation open, and no request is rejected with
\* 'Operation not initialized', alone or next to another request.
C38_RecordsInOpenSession ==
  telemetry # "none" =>
    \A r \in ReqIds :
      /\ pc[r] \in {"awaitDecompose", "awaitSearch", "postLoop",
                     "awaitSynthesis"}
           => operationId # 0
      /\ caught[r].origin = "telemetry" => caught[r].evidence > 0
      /\ outcome[r].kind = "rejected" =>
           outcome[r].error \notin
             {NotInitializedError, ResearchFailed(NotInitializedError)}

====
